---------------------------- MODULE Spec2Model ----------------------------
(***************************************************************************)
(* Model of the resolution-and-routing pipeline of the appliance-parts     *)
(* agent (backend_fastapi/app/agent/router.py, handlers.py, planner.py).   *)
(*                                                                         *)
(* Text is modelled literally: a Python str is a sequence of one-character *)
(* strings, so upper(), lower(), strip(), substring tests and the regular  *)
(* expressions of the source are computed character by character.  Python  *)
(* None is the value None below, which no character sequence equals.       *)
(* Confidence scores are exact integers in thousandths (0.55 is 550).      *)
(***************************************************************************)
EXTENDS Integers, Sequences, FiniteSets, TLC

VARIABLES
    entities,           \* the session dict of the conversation (mutated in place)
    turns,              \* number of handle_query calls so far
    last,               \* inputs, intermediate values and result of the last turn
    rs,                 \* a direct call of validate_and_resolve: inputs and result
    rt,                 \* a direct call of route: inputs and result
    pl,                 \* a planner on its own: its cache and its last call
    cf,                 \* a direct call of compute_confidence: inputs and result
    ex,                 \* a direct call of extract_candidates: input and result
    tn,                 \* one call of handle_query on any session: inputs and result
    hd,                 \* a direct call of a handler: inputs and the full response
    ch,                 \* the /chat endpoint: sessions and the requests in flight
    sp                  \* the planner shared by the requests: its cache and the calls of plan()

vars == <<entities, turns, last, rs, rt, pl, cf, ex, tn, hd, ch, sp>>

(***************************************************************************)
(* Characters and strings                                                  *)
(***************************************************************************)
None == <<"None">>

LowerSeq == <<"a","b","c","d","e","f","g","h","i","j","k","l","m","n","o","p","q","r","s","t","u","v","w","x","y","z">>
UpperSeq == <<"A","B","C","D","E","F","G","H","I","J","K","L","M","N","O","P","Q","R","S","T","U","V","W","X","Y","Z">>
DigitChars == {"0","1","2","3","4","5","6","7","8","9"}

Range(f) == { f[i] : i \in DOMAIN f }

LowerChars == Range(LowerSeq)

UpperChars == Range(UpperSeq)

IsAlpha(c) == c \in LowerChars \cup UpperChars

IsAlnum(c) == IsAlpha(c) \/ c \in DigitChars

\* \w of Python's re module: alphanumeric or underscore
IsWordChar(c) == IsAlnum(c) \/ c = "_"

upper_char(c) ==
    IF c \in LowerChars THEN UpperSeq[CHOOSE i \in 1..26 : LowerSeq[i] = c] ELSE c

lower_char(c) ==
    IF c \in UpperChars THEN LowerSeq[CHOOSE i \in 1..26 : UpperSeq[i] = c] ELSE c

\* str.upper()
upper(s) == [i \in 1..Len(s) |-> upper_char(s[i])]

\* str.lower()
lower(s) == [i \in 1..Len(s) |-> lower_char(s[i])]

\* str.strip(): the whitespace of the modelled texts is the blank and the newline
IsSpace(c) == c \in {" ", "\n"}

RECURSIVE lstrip(_)
lstrip(s) == IF s # <<>> /\ IsSpace(Head(s)) THEN lstrip(Tail(s)) ELSE s

RECURSIVE rstrip(_)
rstrip(s) ==
    IF s # <<>> /\ IsSpace(s[Len(s)]) THEN rstrip(SubSeq(s, 1, Len(s) - 1)) ELSE s

strip(s) == rstrip(lstrip(s))

\* Python truthiness of an Optional[str]: None and "" are falsy
Truthy(x) == x # None /\ x # <<>>

\* Python's "a or b" on Optional[str] values
Or(a, b) == IF Truthy(a) THEN a ELSE b

\* "sub in s"
contains(s, sub) ==
    \E i \in 1..(Len(s) - Len(sub) + 1) : SubSeq(s, i, i + Len(sub) - 1) = sub

\* re.search(r"\b" + re.escape(sub) + r"\b", s) is not None, for a pattern
\* that begins and ends with a word character
search_word_bounded(s, sub) ==
    \E i \in 1..(Len(s) - Len(sub) + 1) :
        /\ SubSeq(s, i, i + Len(sub) - 1) = sub
        /\ (i = 1 \/ ~IsWordChar(s[i - 1]))
        /\ (i + Len(sub) > Len(s) \/ ~IsWordChar(s[i + Len(sub)]))

\* str.startswith("PS")
startswith_PS(s) == Len(s) >= 2 /\ s[1] = "P" /\ s[2] = "S"

\* str.isalpha() and any(ch.isdigit() for ch in s)
isalpha(s) == s # <<>> /\ \A i \in 1..Len(s) : IsAlpha(s[i])

has_digit(s) == \E i \in 1..Len(s) : s[i] \in DigitChars

\* The maximal runs of word characters of s, in order.  A match of a pattern
\* \b[class]{m,n}\b whose class holds only word characters is exactly such a
\* run: \b needs a non-word neighbour (or the end of the text) on each side.
word_starts(s) ==
    { i \in 1..Len(s) : IsWordChar(s[i]) /\ (i = 1 \/ ~IsWordChar(s[i - 1])) }

\* the last position of the maximal run of word characters starting at i
word_end(s, i) ==
    CHOOSE j \in i..Len(s) :
        /\ \A k \in i..j : IsWordChar(s[k])
        /\ (j = Len(s) \/ ~IsWordChar(s[j + 1]))

word_at(s, i) == SubSeq(s, i, word_end(s, i))

\* a whole run matched by PS\d{5,}
is_part_token(w) ==
    /\ Len(w) >= 7
    /\ startswith_PS(w)
    /\ \A i \in 3..Len(w) : w[i] \in DigitChars

\* a whole run matched by [A-Z0-9]{6,15}
is_model_token(w) ==
    /\ Len(w) >= 6
    /\ Len(w) <= 15
    /\ \A i \in 1..Len(w) : w[i] \in UpperChars \cup DigitChars

\* a search returning the rightmost match instead of the leftmost one
search_part_id_last(text) ==
    LET hits == { i \in word_starts(text) : is_part_token(word_at(text, i)) }
    IN  IF hits = {} THEN None
        ELSE word_at(text, CHOOSE i \in hits : \A j \in hits : i >= j)

\* re.search(r"\bPS\d{5,}\b", text): the leftmost match or None
search_part_id(text) ==
    LET hits == { i \in word_starts(text) : is_part_token(word_at(text, i)) }
    IN  IF hits = {} THEN None
        ELSE word_at(text, CHOOSE i \in hits : \A j \in hits : i <= j)

\* re.search(r"\b[A-Z0-9]{6,15}\b", text): the leftmost match or None
search_model_token(text) ==
    LET hits == { i \in word_starts(text) : is_model_token(word_at(text, i)) }
    IN  IF hits = {} THEN None
        ELSE word_at(text, CHOOSE i \in hits : \A j \in hits : i <= j)

(***************************************************************************)
(* Reference Store (app/core/state.py): the keys of part_id_map and of     *)
(* model_id_to_parts_map.  Keys are uppercase (build_indexes.py).          *)
(***************************************************************************)

PS_KNOWN == <<"P", "S", "1", "1", "7", "5", "2">>

PS_UNKNOWN == <<"P", "S", "9", "9", "9", "9", "9">>

PS_SECOND == <<"P", "S", "2", "2", "2", "2", "2">>

MODEL_KNOWN == <<"W", "D", "T", "7", "8", "0">>

MODEL_UNKNOWN == <<"U", "N", "K", "1", "2", "3">>

\* part_id_map: key -> part record (only the fields the pipeline reads)
part_id_map == (PS_KNOWN :> [part_id |-> PS_KNOWN]) @@ (PS_SECOND :> [part_id |-> PS_SECOND])

\* model_id_to_parts_map: key -> list of compatible part ids
model_id_to_parts_map == (MODEL_KNOWN :> <<PS_KNOWN>>)

(***************************************************************************)
(* Guardrail vocabularies and phrase lists                                 *)
(***************************************************************************)
VALID_APPLIANCES ==
    { <<"r","e","f","r","i","g","e","r","a","t","o","r">>,
      <<"d","i","s","h","w","a","s","h","e","r">>,
      <<"f","r","i","d","g","e">> }

OUT_OF_SCOPE_KEYWORDS ==
    { <<"o","v","e","n">>,
      <<"s","t","o","v","e">>,
      <<"r","a","n","g","e">>,
      <<"m","i","c","r","o","w","a","v","e">>,
      <<"d","r","y","e","r">>,
      <<"w","a","s","h","i","n","g"," ","m","a","c","h","i","n","e">>,
      <<"c","l","o","t","h","e","s"," ","w","a","s","h","e","r">>,
      <<"c","l","o","t","h","e","s"," ","d","r","y","e","r">>,
      <<"f","u","r","n","a","c","e">>,
      <<"h","v","a","c">>,
      <<"w","a","t","e","r"," ","h","e","a","t","e","r">>,
      <<"g","a","r","b","a","g","e"," ","d","i","s","p","o","s","a","l">>,
      <<"a","i","r"," ","c","o","n","d","i","t","i","o","n","e","r">>,
      <<"a","c">> }

followup_markers ==
    { <<"s","t","e","p"," ","b","y"," ","s","t","e","p">>,
      <<"w","a","l","k"," ","m","e"," ","t","h","r","o","u","g","h">>,
      <<"d","i","a","g","n","o","s","t","i","c"," ","c","h","e","c","k","s">>,
      <<"n","e","x","t"," ","s","t","e","p","s">>,
      <<"w","h","a","t"," ","s","h","o","u","l","d"," ","i"," ","c","h","e","c","k">>,
      <<"h","o","w"," ","d","o"," ","i"," ","f","i","x">> }

part_reference_patterns ==
    { <<"t","h","i","s"," ","p","a","r","t">>,
      <<"t","h","a","t"," ","p","a","r","t">>,
      <<"i","t">>,
      <<"t","h","e"," ","p","a","r","t">>,
      <<"s","a","m","e"," ","p","a","r","t">> }

model_reference_patterns ==
    { <<"t","h","i","s"," ","m","o","d","e","l">>,
      <<"t","h","a","t"," ","m","o","d","e","l">>,
      <<"m","y"," ","m","o","d","e","l">>,
      <<"s","a","m","e"," ","m","o","d","e","l">>,
      <<"w","i","t","h"," ","i","t">> }

appliance_terms ==
    { <<"r","e","f","r","i","g","e","r","a","t","o","r">>,
      <<"f","r","i","d","g","e">>,
      <<"d","i","s","h","w","a","s","h","e","r">>,
      <<"i","c","e"," ","m","a","k","e","r">>,
      <<"w","a","t","e","r"," ","f","i","l","t","e","r">>,
      <<"d","o","o","r"," ","b","i","n">>,
      <<"l","e","a","k">>,
      <<"d","r","a","i","n">>,
      <<"n","o","i","s","y">>,
      <<"n","o","t"," ","w","o","r","k","i","n","g">>,
      <<"i","n","s","t","a","l","l">> }

general_markers ==
    { <<"w","h","a","t"," ","i","s"," ","t","o","d","a","y","'","s"," ","d","a","t","e">>,
      <<"w","h","a","t"," ","i","s"," ","t","h","e"," ","d","a","t","e">>,
      <<"t","o","d","a","y","'","s"," ","d","a","t","e">>,
      <<"c","a","p","i","t","a","l"," ","o","f">>,
      <<"w","h","o"," ","i","s">>,
      <<"w","h","a","t"," ","t","i","m","e">>,
      <<"w","e","a","t","h","e","r">>,
      <<"t","e","l","l"," ","m","e"," ","a","b","o","u","t">> }

(***************************************************************************)
(* Input texts                                                             *)
(***************************************************************************)

model_known_lower == <<"w", "d", "t", "7", "8", "0">>

part_known_lower == <<"p", "s", "1", "1", "7", "5", "2">>

refrigerator == <<"r", "e", "f", "r", "i", "g", "e", "r", "a", "t", "o", "r">>

Refrigerator == <<"R", "e", "f", "r", "i", "g", "e", "r", "a", "t", "o", "r">>

dishwasher == <<"d", "i", "s", "h", "w", "a", "s", "h", "e", "r">>

fridge == <<"f", "r", "i", "d", "g", "e">>

oven == <<"o", "v", "e", "n">>

BRAND_WHIRLPOOL == <<"W", "h", "i", "r", "l", "p", "o", "o", "l">>

BRAND_GE == <<"G", "E">>

SYM_ICE == <<"i", "c", "e", " ", "m", "a", "k", "e", "r", " ", "n", "o", "t", " ", "w", "o", "r", "k", "i", "n", "g">>

SYM_LEAK == <<"l", "e", "a", "k", "i", "n", "g">>

M_empty == <<>>

M_noise == <<"?", "!">>

M_digits == <<"1", "2", " ", "3", "4">>

M_capital == <<"c", "a", "p", "i", "t", "a", "l", " ", "o", "f", " ", "u", "s", "a">>

M_who_part == <<"w", "h", "o", " ", "i", "s", " ", "P", "S", "1", "1", "7", "5", "2">>

M_tell_fridge == <<"t", "e", "l", "l", " ", "m", "e", " ", "a", "b", "o", "u", "t", " ", "f", "r", "i", "d", "g", "e">>

M_weather_model == <<"w", "e", "a", "t", "h", "e", "r", " ", "W", "D", "T", "7", "8", "0">>

M_install_part == <<"i", "n", "s", "t", "a", "l", "l", " ", "P", "S", "1", "1", "7", "5", "2">>

M_part_unknown == <<"P", "S", "9", "9", "9", "9", "9", " ", "i", "n", "f", "o">>

M_oven == <<"m", "y", " ", "o", "v", "e", "n", " ", "i", "s", " ", "h", "o", "t">>

M_back == <<"n", "o", "i", "s", "y", " ", "a", "t", " ", "b", "a", "c", "k">>

M_symptom == <<"i", "c", "e", " ", "m", "a", "k", "e", "r", " ", "n", "o", "t", " ", "w", "o", "r", "k", "i", "n", "g">>

M_this_part == <<"i", "s", " ", "t", "h", "i", "s", " ", "p", "a", "r", "t", " ", "o", "k">>

M_part_fits == <<"t", "h", "i", "s", " ", "p", "a", "r", "t", " ", "f", "i", "t", "s", " ", "W", "D", "T", "7", "8", "0">>

M_my_model == <<"p", "a", "r", "t", "s", " ", "f", "o", "r", " ", "m", "y", " ", "m", "o", "d", "e", "l">>

M_item == <<"i", "t", "e", "m", " ", "l", "i", "s", "t">>

M_walk == <<"w", "a", "l", "k", " ", "m", "e", " ", "t", "h", "r", "o", "u", "g", "h">>

M_unknown_model == <<"U", "N", "K", "1", "2", "3">>

M_model == <<"W", "D", "T", "7", "8", "0">>

M_part_then_model == <<"P", "S", "1", "1", "7", "5", "2", " ", "f", "i", "t", "s", " ", "W", "D", "T", "7", "8", "0">>

M_model_with_it == <<"U", "N", "K", "1", "2", "3", " ", "w", "i", "t", "h", " ", "i", "t">>

M_model_then_part == <<"W", "D", "T", "7", "8", "0", " ", "P", "S", "1", "1", "7", "5", "2">>


(***************************************************************************)
(* Candidate Extractor and the pre-filters (router.py)                     *)
(***************************************************************************)
\* ApplianceAgent.extract_candidates
extract_candidates(text) ==
    LET clean == upper(strip(text))
        part_match == search_part_id(clean)
        model_match == search_model_token(clean)
    IN  [ part_id  |-> part_match,
          model_id |-> IF model_match # None
                          /\ ~startswith_PS(model_match)
                          /\ ~isalpha(model_match)
                       THEN model_match ELSE None ]

\* len(re.findall(r"[A-Za-z0-9]", clean))
alnum_count(s) == Cardinality({ i \in 1..Len(s) : IsAlnum(s[i]) })

\* re.search(r"[A-Za-z]{2,}", clean)
has_word(s) == \E i \in 1..(Len(s) - 1) : IsAlpha(s[i]) /\ IsAlpha(s[i + 1])

\* re.search(r"\b(PS\d{5,}|[A-Z0-9]{6,15})\b", clean.upper())
has_id_like(s) ==
    LET text == upper(s)
    IN  \E i \in word_starts(text) :
            is_part_token(word_at(text, i)) \/ is_model_token(word_at(text, i))

\* ApplianceAgent._is_low_signal_query
is_low_signal_query(user_query) ==
    IF user_query = <<>> \/ strip(user_query) = <<>> THEN TRUE
    ELSE LET clean == strip(user_query)
         IN  IF alnum_count(clean) < 3 THEN TRUE
             ELSE ~has_word(clean) /\ ~has_id_like(clean)

\* ApplianceAgent._is_obvious_non_domain_query
is_obvious_non_domain_query(user_query) ==
    IF user_query = <<>> THEN FALSE
    ELSE LET clean == lower(strip(user_query))
             text  == upper(user_query)
         IN  IF clean = <<>> THEN FALSE
             ELSE IF search_part_id(text) # None THEN FALSE
             ELSE IF \E i \in word_starts(text) :
                        /\ is_model_token(word_at(text, i))
                        /\ ~startswith_PS(word_at(text, i))
                        /\ has_digit(word_at(text, i))
                  THEN FALSE
             ELSE IF \E term \in appliance_terms : contains(clean, term) THEN FALSE
             ELSE \E marker \in general_markers : contains(clean, marker)

\* any(re.search(p, query) for p in patterns) of _should_reuse_session_part
has_part_reference(user_query) ==
    \E p \in part_reference_patterns : search_word_bounded(lower(user_query), p)

\* any(re.search(p, query) for p in patterns) of _should_reuse_session_model
has_model_reference(user_query) ==
    \E p \in model_reference_patterns : search_word_bounded(lower(user_query), p)

\* the keyword tier of check_scope: some out-of-scope keyword is a whole word
has_out_of_scope_keyword(user_query) ==
    \E keyword \in OUT_OF_SCOPE_KEYWORDS : search_word_bounded(lower(user_query), keyword)

\* any(marker in query for marker in followup_markers)
has_followup_marker(user_query) ==
    \E marker \in followup_markers : contains(lower(user_query), marker)


(***************************************************************************)
(* The user messages of the model, and what the text functions above       *)
(* return on each of them.  TextFacts is a table of those results, so that *)
(* each is computed once per message and not once per state.               *)
(***************************************************************************)
Messages ==
    { M_empty, M_noise, M_digits, M_capital, M_who_part, M_tell_fridge, M_weather_model, M_install_part,
      M_part_unknown, M_oven, M_back, M_symptom, M_this_part, M_part_fits,
      M_my_model, M_item, M_walk, M_unknown_model, M_model, M_part_then_model,
      M_model_with_it, M_model_then_part }

text_facts(user_query) ==
    [ low_signal           |-> is_low_signal_query(user_query),
      non_domain           |-> is_obvious_non_domain_query(user_query),
      candidates           |-> extract_candidates(user_query),
      part_reference       |-> has_part_reference(user_query),
      model_reference      |-> has_model_reference(user_query),
      out_of_scope_keyword |-> has_out_of_scope_keyword(user_query),
      followup_marker      |-> has_followup_marker(user_query) ]

TextFacts == [ user_query \in Messages |-> text_facts(user_query) ]

\* a reuse test that forgets the intent
should_reuse_session_part_any_intent(user_query, intent) ==
    TextFacts[user_query].part_reference

\* ApplianceAgent._should_reuse_session_part
should_reuse_session_part(user_query, intent) ==
    IF intent = "symptom_troubleshoot" THEN FALSE
    ELSE TextFacts[user_query].part_reference

\* ApplianceAgent._should_reuse_session_model
should_reuse_session_model(user_query, intent) ==
    IF intent = "symptom_troubleshoot" THEN FALSE
    ELSE TextFacts[user_query].model_reference

(***************************************************************************)
(* Dictionaries.  A Python dict is a function whose domain is its key set. *)
(***************************************************************************)
EmptyDict == << >>

\* dict.get(k) with default None
Get(d, k) == IF k \in DOMAIN d THEN d[k] ELSE None

\* dict.get(k, default)
GetOr(d, k, default) == IF k \in DOMAIN d THEN d[k] ELSE default

\* d[k] = v
Put(d, k, v) == [x \in DOMAIN d \cup {k} |-> IF x = k THEN v ELSE d[x]]

Min(a, b) == IF a <= b THEN a ELSE b

Max(a, b) == IF a >= b THEN a ELSE b

(***************************************************************************)
(* Entity Resolver (router.py)                                             *)
(***************************************************************************)
\* ApplianceAgent._prefetch_part: the record of the part map or a miss
prefetch_part(part_id) ==
    IF ~Truthy(part_id) THEN [hit |-> FALSE, part_id |-> None]
    ELSE IF upper(part_id) \in DOMAIN part_id_map
         THEN [hit |-> TRUE, part_id |-> part_id_map[upper(part_id)].part_id]
         ELSE [hit |-> FALSE, part_id |-> None]

\* ApplianceAgent._prefetch_model
prefetch_model(model_id) ==
    IF ~Truthy(model_id) THEN [model_id |-> None, exists |-> FALSE]
    ELSE [model_id |-> upper(model_id),
          exists   |-> upper(model_id) \in DOMAIN model_id_to_parts_map]

\* candidate_part of validate_and_resolve: extractor, then plan, then session
candidate_part(plan, candidates, session_entities, user_query) ==
    Or(candidates.part_id,
       Or(plan.part_id,
          IF should_reuse_session_part(user_query, plan.intent)
          THEN Get(session_entities, "part_id") ELSE None))

\* candidate_model of validate_and_resolve
candidate_model(plan, candidates, session_entities, user_query) ==
    Or(candidates.model_id,
       Or(plan.model_id,
          IF should_reuse_session_model(user_query, plan.intent)
          THEN Get(session_entities, "model_id") ELSE None))

\* a part validation that keeps every candidate
part_is_valid_unchecked(pid, prefetched) == TRUE

\* a part validation that trusts any prefetch hit
part_is_valid_any_hit(pid, prefetched) ==
    \/ prefetched.part_data.hit
    \/ startswith_PS(pid) /\ pid \in DOMAIN part_id_map

\* the part validation of validate_and_resolve: prefetch hit or map lookup
part_is_valid(pid, prefetched) ==
    \/ prefetched.part_data.hit /\ prefetched.part_data.part_id = pid
    \/ startswith_PS(pid) /\ pid \in DOMAIN part_id_map

\* a model validation that reads the prefetch flag whatever id it is for
model_is_valid_prefetch_only(mid, prefetched) == prefetched.model_info.exists

\* the model validation of validate_and_resolve
model_is_valid(mid, prefetched) ==
    IF prefetched.model_info.model_id = mid
    THEN prefetched.model_info.exists
    ELSE mid \in DOMAIN model_id_to_parts_map

\* a symptom field filled for every intent
resolve_symptom_any_intent(plan) == Or(plan.query, plan.symptom)

\* the symptom field of validate_and_resolve
resolve_symptom(plan) ==
    IF plan.intent = "symptom_troubleshoot" THEN Or(plan.query, plan.symptom) ELSE None

\* ApplianceAgent.validate_and_resolve
validate_and_resolve(plan, candidates, session_entities, user_query, prefetched) ==
    LET cp  == candidate_part(plan, candidates, session_entities, user_query)
        cm  == candidate_model(plan, candidates, session_entities, user_query)
        pid == upper(cp)
        mid == upper(cm)
        pv  == Truthy(cp) /\ part_is_valid(pid, prefetched)
        mv  == Truthy(cm) /\ model_is_valid(mid, prefetched)
    IN  [ intent         |-> plan.intent,
          part_id        |-> IF pv THEN pid ELSE None,
          model_id       |-> IF Truthy(cm) THEN mid ELSE None,
          symptom        |-> resolve_symptom(plan),
          appliance      |-> plan.appliance,
          brand          |-> plan.brand,
          part_id_valid  |-> pv,
          model_id_valid |-> mv ]

(***************************************************************************)
(* Guardrail Layer (router.py)                                             *)
(***************************************************************************)
\* a scope check without the appliance tier
check_scope_keywords_only(user_query, resolved) ==
    IF Truthy(resolved.part_id) \/ Truthy(resolved.model_id)
    THEN [in_scope |-> TRUE, message |-> "none"]
    ELSE IF TextFacts[user_query].out_of_scope_keyword
         THEN [in_scope |-> FALSE, message |-> "scope_keyword"]
    ELSE [in_scope |-> TRUE, message |-> "none"]

\* a scope check that asks for an identifier before it looks at the appliance
check_scope_ids_first(user_query, resolved) ==
    IF Truthy(resolved.part_id) \/ Truthy(resolved.model_id)
    THEN [in_scope |-> TRUE, message |-> "none"]
    ELSE IF Truthy(resolved.appliance)
    THEN IF lower(resolved.appliance) \in VALID_APPLIANCES
         THEN [in_scope |-> TRUE, message |-> "none"]
         ELSE [in_scope |-> FALSE, message |-> "scope_appliance"]
    ELSE IF TextFacts[user_query].out_of_scope_keyword
         THEN [in_scope |-> FALSE, message |-> "scope_keyword"]
    ELSE [in_scope |-> TRUE, message |-> "none"]

\* ApplianceAgent.check_scope: in_scope and the kind of rejection message
check_scope(user_query, resolved) ==
    IF Truthy(resolved.appliance)
    THEN IF lower(resolved.appliance) \in VALID_APPLIANCES
         THEN [in_scope |-> TRUE, message |-> "none"]
         ELSE [in_scope |-> FALSE, message |-> "scope_appliance"]
    ELSE IF Truthy(resolved.part_id) \/ Truthy(resolved.model_id)
         THEN [in_scope |-> TRUE, message |-> "none"]
    ELSE IF TextFacts[user_query].out_of_scope_keyword
         THEN [in_scope |-> FALSE, message |-> "scope_keyword"]
    ELSE [in_scope |-> TRUE, message |-> "none"]

\* a drift check that never signals
check_topic_drift_off(session_entities, resolved) == FALSE

\* ApplianceAgent.check_topic_drift
check_topic_drift(session_entities, resolved) ==
    LET session_appliance == lower(GetOr(session_entities, "appliance", <<>>))
        current_appliance == IF Truthy(resolved.appliance)
                             THEN lower(resolved.appliance) ELSE resolved.appliance
    IN  /\ Truthy(session_appliance)
        /\ Truthy(current_appliance)
        /\ session_appliance # current_appliance

(***************************************************************************)
(* Confidence Scorer and session merge (router.py)                         *)
(***************************************************************************)
\* a model credit that adds the partial credit to the validated one
model_credit_both(resolved) ==
    (IF resolved.model_id_valid THEN 150 ELSE 0)
        + (IF Truthy(resolved.model_id) THEN 80 ELSE 0)

\* a model credit that pays more for an unvalidated model
model_credit_inverted(resolved) ==
    IF resolved.model_id_valid THEN 80
    ELSE IF Truthy(resolved.model_id) THEN 150 ELSE 0

\* the database credit of compute_confidence for the model: the validated
\* credit, else the partial credit for a model that is present
model_credit(resolved) ==
    IF resolved.model_id_valid THEN 150
    ELSE IF Truthy(resolved.model_id) THEN 80 ELSE 0

\* ApplianceAgent.compute_confidence, in thousandths
compute_confidence(resolved, plan, candidates, session_entities) ==
    LET regex_part  == IF Truthy(candidates.part_id) /\ Truthy(resolved.part_id)
                       THEN 100 ELSE 0
        regex_model == IF Truthy(candidates.model_id) /\ Truthy(resolved.model_id)
                       THEN 100 ELSE 0
        db_part     == IF resolved.part_id_valid THEN 150 ELSE 0
        db_model    == model_credit(resolved)
        llm         == (plan.confidence * 4) \div 10
        ctx_model   == IF Truthy(Get(session_entities, "model_id"))
                          /\ Truthy(resolved.symptom) THEN 50 ELSE 0
        ctx_symptom == IF Truthy(Get(session_entities, "last_symptom")) THEN 50 ELSE 0
    IN  Min(regex_part + regex_model + db_part + db_model + llm
            + ctx_model + ctx_symptom, 1000)

\* a merge that writes every field of resolved, the empty ones included
merge_state_overwriting(session_entities, resolved) ==
    Put(Put(Put(Put(Put(Put(session_entities, "model_id", resolved.model_id),
                            "model_id_valid", resolved.model_id_valid),
                        "part_id", resolved.part_id),
                    "last_symptom", resolved.symptom),
                "appliance", resolved.appliance),
            "brand", resolved.brand)

\* a merge that stores the model without its flag
merge_state_without_flag(session_entities, resolved) ==
    LET s1 == IF Truthy(resolved.model_id)
              THEN Put(session_entities, "model_id", resolved.model_id)
              ELSE session_entities
        s2 == IF Truthy(resolved.part_id)
              THEN Put(s1, "part_id", resolved.part_id) ELSE s1
        s3 == IF Truthy(resolved.symptom)
              THEN Put(s2, "last_symptom", resolved.symptom) ELSE s2
        s4 == IF Truthy(resolved.appliance)
              THEN Put(s3, "appliance", resolved.appliance) ELSE s3
    IN  IF Truthy(resolved.brand) THEN Put(s4, "brand", resolved.brand) ELSE s4

\* ApplianceAgent.merge_state
merge_state(session_entities, resolved) ==
    LET s1 == IF Truthy(resolved.model_id)
              THEN Put(Put(session_entities, "model_id", resolved.model_id),
                       "model_id_valid", resolved.model_id_valid)
              ELSE session_entities
        s2 == IF Truthy(resolved.part_id)
              THEN Put(s1, "part_id", resolved.part_id) ELSE s1
        s3 == IF Truthy(resolved.symptom)
              THEN Put(s2, "last_symptom", resolved.symptom) ELSE s2
        s4 == IF Truthy(resolved.appliance)
              THEN Put(s3, "appliance", resolved.appliance) ELSE s3
    IN  IF Truthy(resolved.brand) THEN Put(s4, "brand", resolved.brand) ELSE s4


(***************************************************************************)
(* Response handlers (handlers.py).  An AgentResponse is the record of its *)
(* type, confidence, requires_clarification and the kind of its message.   *)
(* env holds the outcomes of the collaborator calls of one turn:           *)
(*   search, broad : "raise", "empty" or "hits" (vector_search)            *)
(*   fits          : whether the hits are compatible with the model        *)
(*   boost         : what _compute_symptom_confidence adds for the ranking *)
(***************************************************************************)
AgentResponse(type, confidence, requires_clarification, message) ==
    [ type |-> type, confidence |-> confidence,
      requires_clarification |-> requires_clarification, message |-> message ]

\* AgentHandlers._part_not_found
part_not_found(part_id) ==
    AgentResponse("clarification_needed", 300, TRUE, "part_not_found")

\* AgentHandlers.handle_part_lookup
handle_part_lookup(part_id, confidence) ==
    IF part_id \notin DOMAIN part_id_map THEN part_not_found(part_id)
    ELSE AgentResponse("part_lookup", Min(confidence + 50, 990), FALSE, "none")

\* part_tools.check_compatibility
check_compatibility(model_id, part_id) ==
    LET m == upper(strip(model_id))
        p == upper(strip(part_id))
    IN  /\ m \in DOMAIN model_id_to_parts_map
        /\ \E i \in DOMAIN model_id_to_parts_map[m] : model_id_to_parts_map[m][i] = p

\* what a handler leaves in place of a response when it raises
Raised == AgentResponse("raised", 0, FALSE, "exception")

\* AgentHandlers.handle_compatibility: building the prompt reads the part
\* record outside any try block, and raises when the map has no such part
handle_compatibility(model_id, part_id, confidence) ==
    IF part_id \notin DOMAIN part_id_map THEN Raised
    ELSE IF check_compatibility(model_id, part_id)
    THEN AgentResponse("compatibility", Min(confidence + 150, 990), FALSE, "none")
    ELSE AgentResponse("compatibility", confidence, FALSE, "none")

\* AgentHandlers.handle_compatibility_unvalidated
handle_compatibility_unvalidated(part_id, model_id, confidence) ==
    AgentResponse("compatibility", Min(confidence, 700), TRUE, "none")

\* AgentHandlers._get_popular_parts: the first parts of the map when no
\* product type matches, so it is empty only for an empty part map
get_popular_parts(appliance) == DOMAIN part_id_map

\* AgentHandlers._compute_symptom_confidence
compute_symptom_confidence(has_ranked, boost, base_confidence) ==
    IF ~has_ranked THEN 300 ELSE Min(base_confidence + boost, 950)

\* AgentHandlers.handle_symptom_troubleshoot
handle_symptom_troubleshoot(symptom, model_id, session_entities, confidence, env) ==
    LET raw_nonempty == IF env.search = "raise"
                        THEN get_popular_parts(Get(session_entities, "appliance")) # {}
                        ELSE env.search = "hits"
        has_ranked == raw_nonempty /\ env.fits
        symptom_confidence == compute_symptom_confidence(has_ranked, env.boost, confidence)
    IN  IF env.search = "raise" /\ Get(session_entities, "appliance") = None
        THEN \* _get_popular_parts(None): appliance.lower() raises in the except clause
             Raised
        ELSE AgentResponse("symptom_solution", symptom_confidence,
                           symptom_confidence < 700, "none")

\* AgentHandlers.handle_symptom_troubleshoot_unvalidated
handle_symptom_troubleshoot_unvalidated(symptom, model_id, session_entities, confidence, env) ==
    LET primary == env.search = "hits"
        broad   == primary \/ env.broad = "hits"
        popular == broad \/
                   get_popular_parts(GetOr(session_entities, "appliance", refrigerator)) # {}
    IN  IF ~popular
        THEN AgentResponse("clarification_needed", confidence, TRUE, "no_parts_found")
        ELSE AgentResponse("symptom_solution", confidence, FALSE, "none")

\* AgentHandlers.handle_model_required
handle_model_required(detected_info, confidence) ==
    AgentResponse("model_required", confidence, TRUE, "model_required")

\* AgentHandlers.handle_issue_required
handle_issue_required(model_id, confidence) ==
    AgentResponse("issue_required", confidence, TRUE, "issue_required")

\* a handler returning a response whose type is not one of the six kinds
handle_clarification_needed_silent(resolved, session_entities, confidence) ==
    AgentResponse("none", confidence, TRUE, "none")

\* AgentHandlers.handle_clarification_needed
handle_clarification_needed(resolved, session_entities, confidence) ==
    AgentResponse("clarification_needed", confidence, TRUE, "need_more_information")

(***************************************************************************)
(* Router (router.py).  route returns the handler it invoked, the          *)
(* confidence and symptom it passed, and the handler's response.           *)
(***************************************************************************)
\* self.confidence_threshold
confidence_threshold == 550

\* the floor of the model-required route below the threshold
model_required_floor == 550

\* the floor of the unvalidated-symptom routes
unvalidated_floor == 600

Routed(handler, confidence, symptom, response) ==
    [ handler |-> handler, confidence |-> confidence, symptom |-> symptom,
      response |-> response ]

\* a route without the priority rule
is_priority_route_off(resolved) == FALSE

\* the priority rule of route
is_priority_route(resolved) ==
    /\ Truthy(resolved.part_id)
    /\ resolved.part_id_valid
    /\ resolved.intent \in {"part_lookup", "install_help"}

\* a low-confidence branch that always asks for clarification
route_below_threshold_generic(resolved, session_entities, confidence, env) ==
    Routed("handle_clarification_needed", confidence, None,
           handle_clarification_needed(resolved, session_entities, confidence))

\* the branch of route taken when confidence < confidence_threshold
route_below_threshold(resolved, session_entities, confidence, env) ==
    LET symptom  == resolved.symptom
        model_id == resolved.model_id
    IN  IF Truthy(symptom) /\ ~Truthy(model_id)
        THEN LET c == Max(confidence, model_required_floor)
             IN  Routed("handle_model_required", c, symptom,
                        handle_model_required(resolved, c))
        ELSE IF Truthy(symptom) /\ Truthy(model_id) /\ ~resolved.model_id_valid
        THEN LET c == Max(confidence, unvalidated_floor)
             IN  Routed("handle_symptom_troubleshoot_unvalidated", c, symptom,
                        handle_symptom_troubleshoot_unvalidated(
                            symptom, model_id, session_entities, c, env))
        ELSE Routed("handle_clarification_needed", confidence, None,
                    handle_clarification_needed(resolved, session_entities, confidence))

\* a symptom rule that passes the confidence on as computed
route_symptom_no_floor(symptom, resolved, session_entities, confidence, env) ==
    IF resolved.model_id_valid
    THEN Routed("handle_symptom_troubleshoot", confidence, symptom,
                handle_symptom_troubleshoot(
                    symptom, resolved.model_id, session_entities, confidence, env))
    ELSE Routed("handle_symptom_troubleshoot_unvalidated", confidence, symptom,
                handle_symptom_troubleshoot_unvalidated(
                    symptom, resolved.model_id, session_entities, confidence, env))

\* the symptom rule of route at or above the threshold
route_symptom(symptom, resolved, session_entities, confidence, env) ==
    LET model_id == resolved.model_id
    IN  IF resolved.model_id_valid
        THEN Routed("handle_symptom_troubleshoot", confidence, symptom,
                    handle_symptom_troubleshoot(
                        symptom, model_id, session_entities, confidence, env))
        ELSE LET c == Max(confidence, unvalidated_floor)
             IN  Routed("handle_symptom_troubleshoot_unvalidated", c, symptom,
                        handle_symptom_troubleshoot_unvalidated(
                            symptom, model_id, session_entities, c, env))

\* a compatibility rule that never looks at model_id_valid
route_compatibility_always_validated(part_id, model_id, resolved, confidence) ==
    Routed("handle_compatibility", confidence, None,
           handle_compatibility(model_id, part_id, confidence))

\* the compatibility rule of route
route_compatibility(part_id, model_id, resolved, confidence) ==
    IF ~resolved.model_id_valid
    THEN Routed("handle_compatibility_unvalidated", confidence, None,
                handle_compatibility_unvalidated(part_id, model_id, confidence))
    ELSE Routed("handle_compatibility", confidence, None,
                handle_compatibility(model_id, part_id, confidence))

\* a model-only rule that forgets the symptom carried by the session
route_model_only_no_followup(model_id, resolved, session_entities, confidence, env) ==
    Routed("handle_issue_required", confidence, None,
           handle_issue_required(model_id, confidence))

\* the model-only follow-up rule of route
route_model_only(model_id, resolved, session_entities, confidence, env) ==
    LET prior_symptom == Get(session_entities, "last_symptom")
    IN  IF Truthy(prior_symptom)
        THEN route_symptom(prior_symptom, resolved, session_entities, confidence, env)
        ELSE Routed("handle_issue_required", confidence, None,
                    handle_issue_required(model_id, confidence))

\* the rules of route at or above the threshold
route_at_threshold(resolved, session_entities, confidence, env) ==
    LET intent   == resolved.intent
        part_id  == resolved.part_id
        model_id == resolved.model_id
        symptom  == resolved.symptom
    IN  IF Truthy(part_id) /\ intent \in {"part_lookup", "install_help"}
        THEN Routed("handle_part_lookup", confidence, None,
                    handle_part_lookup(part_id, confidence))
        ELSE IF intent = "compatibility_check" /\ Truthy(part_id) /\ Truthy(model_id)
        THEN route_compatibility(part_id, model_id, resolved, confidence)
        ELSE IF Truthy(symptom)
        THEN IF ~Truthy(model_id)
             THEN Routed("handle_model_required", confidence, symptom,
                         handle_model_required(resolved, confidence))
             ELSE route_symptom(symptom, resolved, session_entities, confidence, env)
        ELSE IF Truthy(model_id) /\ ~Truthy(symptom)
        THEN route_model_only(model_id, resolved, session_entities, confidence, env)
        ELSE Routed("handle_clarification_needed", confidence, None,
                    handle_clarification_needed(resolved, session_entities, confidence))

\* ApplianceAgent.route
route(resolved, session_entities, confidence, env) ==
    IF is_priority_route(resolved)
    THEN Routed("handle_part_lookup", confidence, None,
                handle_part_lookup(resolved.part_id, confidence))
    ELSE IF confidence < confidence_threshold
    THEN route_below_threshold(resolved, session_entities, confidence, env)
    ELSE route_at_threshold(resolved, session_entities, confidence, env)


(***************************************************************************)
(* Intent Planner as the router sees it (planner.py, router.py).  The      *)
(* classifier is an external service: its reply to one call is either a    *)
(* plan that passed _validate_plan or a failure, which plan() turns into   *)
(* the fallback plan computed from the planning input.                     *)
(***************************************************************************)
HDR_SUMMARY == <<"C", "o", "n", "v", "e", "r", "s", "a", "t", "i", "o", "n", " ", "s", "u", "m", "m", "a", "r", "y", ":">>

HDR_SESSION == <<"S", "e", "s", "s", "i", "o", "n", " ", "c", "o", "n", "t", "e", "x", "t", ":">>

HDR_USER == <<"U", "s", "e", "r", " ", "m", "e", "s", "s", "a", "g", "e", ":">>

SUMMARY_PREV == <<"U", "s", "e", "r", ":", " ", "i", "n", "s", "t", "a", "l", "l", " ", "P", "S", "1", "1", "7", "5", "2">>

\* the keys of the session dict, in the order merge_state inserts them
session_keys ==
    <<"model_id", "model_id_valid", "part_id", "last_symptom", "appliance", "brand">>

key_text ==
    [ model_id |-> <<"m","o","d","e","l","_","i","d">>,
      model_id_valid |-> <<"m","o","d","e","l","_","i","d","_","v","a","l","i","d">>,
      part_id |-> <<"p","a","r","t","_","i","d">>,
      last_symptom |-> <<"l","a","s","t","_","s","y","m","p","t","o","m">>,
      appliance |-> <<"a","p","p","l","i","a","n","c","e">>,
      brand |-> <<"b","r","a","n","d">> ]

\* repr() of one dict item: 'key': 'value' (True or False for the flag)
repr_item(d, k) ==
    <<"'">> \o key_text[k] \o <<"'", ":", " ">>
    \o (IF k = "model_id_valid"
        THEN (IF d[k] THEN <<"T","r","u","e">> ELSE <<"F","a","l","s","e">>)
        ELSE <<"'">> \o d[k] \o <<"'">>)

RECURSIVE repr_items(_, _)
repr_items(d, i) ==
    IF i > Len(session_keys) THEN <<>>
    ELSE LET k    == session_keys[i]
             rest == repr_items(d, i + 1)
         IN  IF k \notin DOMAIN d THEN rest
             ELSE IF rest = <<>> THEN repr_item(d, k)
             ELSE repr_item(d, k) \o <<",", " ">> \o rest

\* str(session_entities)
repr_dict(d) == <<"{">> \o repr_items(d, 1) \o <<"}">>

\* ApplianceAgent._build_planning_input
build_planning_input(user_query, conversation_summary, session_entities) ==
    LET p1 == IF conversation_summary # <<>>
              THEN <<HDR_SUMMARY \o <<"\n">> \o conversation_summary>> ELSE <<>>
        p2 == IF DOMAIN session_entities # {}
              THEN <<(<<"\n">> \o HDR_SESSION \o <<"\n">> \o repr_dict(session_entities))>>
              ELSE <<>>
        p3 == <<(<<"\n">> \o HDR_USER \o <<"\n">> \o user_query)>>
        parts == p1 \o p2 \o p3
    IN  IF Len(parts) = 1 THEN parts[1]
        ELSE IF Len(parts) = 2 THEN parts[1] \o <<"\n">> \o parts[2]
        ELSE parts[1] \o <<"\n">> \o parts[2] \o <<"\n">> \o parts[3]

Plan(intent, confidence, part_id, model_id, symptom, appliance, brand, query) ==
    [ intent |-> intent, confidence |-> confidence, part_id |-> part_id,
      model_id |-> model_id, symptom |-> symptom, appliance |-> appliance,
      brand |-> brand, query |-> query ]

\* a fallback plan as confident as a classifier plan
fallback_plan_confident(user_input) ==
    Plan("general_question", 900, None, None, None, None, None, None)

\* ClaudePlanner._fallback_plan
fallback_plan(user_input) ==
    LET clean       == upper(strip(user_input))
        part_match  == search_part_id(clean)
        model_match == search_model_token(clean)
        model_id    == IF model_match # None
                          /\ ~startswith_PS(model_match)
                          /\ ~isalpha(model_match)
                       THEN model_match ELSE None
        query       == IF user_input # <<>> THEN lower(strip(user_input)) ELSE None
    IN  IF part_match # None
        THEN Plan("part_lookup", 550, part_match, model_id, None, None, None, query)
        ELSE Plan("general_question", 300, None, model_id, None, None, None, query)

\* ClaudePlanner.plan on a cache miss: the validated classifier plan, or the
\* fallback plan when the call, the parse or the validation fails
\* (the cache of plan() is left out: a planning input seen before may get
\* another reply here, which adds behaviours and removes none)
planner_plan(user_input, reply) ==
    IF reply.ok THEN reply.plan ELSE fallback_plan(user_input)

\* a follow-up test that never takes the fast path
is_followup_symptom_query_off(user_query, session_entities) == FALSE

\* ApplianceAgent._is_followup_symptom_query
is_followup_symptom_query(user_query, session_entities) ==
    IF ~Truthy(Get(session_entities, "last_symptom")) THEN FALSE
    ELSE TextFacts[user_query].followup_marker

\* ApplianceAgent._build_followup_symptom_plan
build_followup_symptom_plan(session_entities) ==
    Plan("symptom_troubleshoot", 900, None,
         Get(session_entities, "model_id"),
         Get(session_entities, "last_symptom"),
         Get(session_entities, "appliance"),
         Get(session_entities, "brand"),
         Get(session_entities, "last_symptom"))

(***************************************************************************)
(* ApplianceAgent.handle_query: one turn.  The result holds the response,  *)
(* the session as the turn leaves it, what the turn computed, and the      *)
(* calls it made, in order.                                                *)
(***************************************************************************)
NoPlan == Plan("none", 0, None, None, None, None, None, None)

NoCandidates == [part_id |-> None, model_id |-> None]

NoResolved ==
    [ intent |-> "none", part_id |-> None, model_id |-> None, symptom |-> None,
      appliance |-> None, brand |-> None, part_id_valid |-> FALSE,
      model_id_valid |-> FALSE ]

NoRouted == Routed("none", 0, None, AgentResponse("none", 0, FALSE, "none"))

\* ApplianceAgent._error_response
error_response == AgentResponse("clarification_needed", 0, TRUE, "error")

Turn(exit, response, session_after, plan, candidates, resolved, confidence, routed, drift, calls) ==
    [ exit |-> exit, response |-> response, session_after |-> session_after,
      plan |-> plan, candidates |-> candidates, resolved |-> resolved,
      confidence |-> confidence, routed |-> routed, drift |-> drift, calls |-> calls ]

\* the part of handle_query after the scope check: drift reset, scoring,
\* merge and routing
handle_in_scope(user_query, session_entities, plan, candidates, resolved, env, calls) ==
    LET drift      == check_topic_drift(session_entities, resolved)
        cleared    == IF drift THEN EmptyDict ELSE session_entities
        confidence == compute_confidence(resolved, plan, candidates, cleared)
        merged     == merge_state(cleared, resolved)
        routed     == route(resolved, merged, confidence, env)
        response   == IF routed.response = Raised THEN error_response
                      ELSE routed.response
    IN  Turn("routed", response, merged, plan, candidates, resolved,
             confidence, routed, drift,
             calls \o <<"check_topic_drift">>
                   \o (IF drift THEN <<"session_entities.clear">> ELSE <<>>)
                   \o <<"compute_confidence", "merge_state", "route", routed.handler>>)

\* a turn that merges what it resolved before it checks the scope
handle_planned_merge_first(user_query, conversation_summary, session_entities, reply, env) ==
    LET candidates    == TextFacts[user_query].candidates
        fast_followup == is_followup_symptom_query(user_query, session_entities)
        plan          == IF fast_followup
                         THEN build_followup_symptom_plan(session_entities)
                         ELSE planner_plan(
                                  build_planning_input(user_query, conversation_summary,
                                                       session_entities), reply)
        prefetched    == [ part_data  |-> prefetch_part(candidates.part_id),
                           model_info |-> prefetch_model(candidates.model_id) ]
        resolved      == validate_and_resolve(plan, candidates, session_entities,
                                              user_query, prefetched)
        scope         == check_scope(user_query, resolved)
        calls         == <<"extract_candidates">>
                         \o (IF fast_followup THEN <<"_build_followup_symptom_plan">>
                             ELSE <<"planner.plan">>)
                         \o <<"validate_and_resolve", "check_scope">>
    IN  IF ~scope.in_scope
        THEN Turn("out_of_scope",
                  AgentResponse("clarification_needed", 0, TRUE, scope.message),
                  merge_state(session_entities, resolved), plan, candidates, resolved, 0,
                  NoRouted, FALSE, calls)
        ELSE handle_in_scope(user_query, session_entities, plan, candidates,
                             resolved, env, calls)

\* the part of handle_query after the two pre-filters
handle_planned(user_query, conversation_summary, session_entities, reply, env) ==
    LET candidates    == TextFacts[user_query].candidates
        fast_followup == is_followup_symptom_query(user_query, session_entities)
        plan          == IF fast_followup
                         THEN build_followup_symptom_plan(session_entities)
                         ELSE planner_plan(
                                  build_planning_input(user_query, conversation_summary,
                                                       session_entities), reply)
        prefetched    == [ part_data  |-> prefetch_part(candidates.part_id),
                           model_info |-> prefetch_model(candidates.model_id) ]
        resolved      == validate_and_resolve(plan, candidates, session_entities,
                                              user_query, prefetched)
        scope         == check_scope(user_query, resolved)
        calls         == <<"extract_candidates">>
                         \o (IF fast_followup THEN <<"_build_followup_symptom_plan">>
                             ELSE <<"planner.plan">>)
                         \o <<"validate_and_resolve", "check_scope">>
    IN  IF ~scope.in_scope
        THEN Turn("out_of_scope",
                  AgentResponse("clarification_needed", 0, TRUE, scope.message),
                  session_entities, plan, candidates, resolved, 0, NoRouted, FALSE, calls)
        ELSE handle_in_scope(user_query, session_entities, plan, candidates,
                             resolved, env, calls)

\* a turn without the two pre-filters
handle_query_unfiltered(user_query, conversation_summary, session_entities, reply, env) ==
    handle_planned(user_query, conversation_summary, session_entities, reply, env)

\* ApplianceAgent.handle_query
handle_query(user_query, conversation_summary, session_entities, reply, env) ==
    IF TextFacts[user_query].low_signal
    THEN Turn("low_signal", AgentResponse("clarification_needed", 200, TRUE, "low_signal"),
              session_entities, NoPlan, NoCandidates, NoResolved, 0, NoRouted, FALSE, <<>>)
    ELSE IF TextFacts[user_query].non_domain
    THEN Turn("non_domain", AgentResponse("clarification_needed", 200, TRUE, "non_domain"),
              session_entities, NoPlan, NoCandidates, NoResolved, 0, NoRouted, FALSE, <<>>)
    ELSE handle_planned(user_query, conversation_summary, session_entities, reply, env)


(***************************************************************************)
(* Inputs of the turns                                                     *)
(***************************************************************************)
\* longest conversation explored
MaxTurns == 2

Intents ==
    { "part_lookup", "install_help", "compatibility_check", "symptom_troubleshoot",
      "general_question" }

\* What a validated classifier plan may carry: ids the message does not
\* hold, known and unknown to the store, with and without a symptom.
PlanIds ==
    { <<None, None>>, <<PS_KNOWN, None>>, <<None, MODEL_UNKNOWN>>,
      <<PS_UNKNOWN, MODEL_KNOWN>> }

SymptomPlanIds == { <<None, None>>, <<None, MODEL_UNKNOWN>>, <<PS_UNKNOWN, MODEL_KNOWN>> }

PlanAppliances ==
    { <<None, None>>, <<refrigerator, None>>, <<Refrigerator, BRAND_GE>>,
      <<dishwasher, BRAND_GE>>, <<oven, None>> }

PlanConfidences == { 300, 900 }

\* plans of the intents that carry no symptom
IdPlans ==
    { Plan(i, c, ids[1], ids[2], None, None, None, None) :
        i \in { "part_lookup", "compatibility_check", "general_question" },
        c \in PlanConfidences, ids \in PlanIds }

\* plans of the symptom intent
SymptomPlans ==
    { Plan("symptom_troubleshoot", c, ids[1], ids[2], SYM_LEAK, ab[1], ab[2], SYM_ICE) :
        c \in PlanConfidences, ids \in SymptomPlanIds, ab \in PlanAppliances }

\* plans of the remaining shapes
OtherPlans ==
    { Plan("install_help", 900, PS_KNOWN, None, SYM_LEAK, dishwasher, BRAND_GE, SYM_ICE),
      Plan("install_help", 300, None, None, None, None, None, None),
      Plan("symptom_troubleshoot", 900, None, None, None, refrigerator, None, None),
      Plan("symptom_troubleshoot", 900, None, MODEL_KNOWN, SYM_LEAK, None, None, None),
      Plan("symptom_troubleshoot", 900, PS_KNOWN, None, SYM_LEAK, None, None, SYM_ICE),
      Plan("general_question", 900, None, None, SYM_LEAK, oven, None, SYM_ICE),
      Plan("part_lookup", 900, PS_KNOWN, None, None, oven, None, None),
      Plan("compatibility_check", 900, PS_KNOWN, MODEL_KNOWN, None, refrigerator, None, None),
      Plan("compatibility_check", 900, PS_KNOWN, MODEL_UNKNOWN, None, None, None, None) }

ClassifierPlans == IdPlans \cup SymptomPlans \cup OtherPlans

FailedReply == [ok |-> FALSE, plan |-> NoPlan]

ClassifierReplies == { [ok |-> TRUE, plan |-> p] : p \in ClassifierPlans } \cup { FailedReply }

Summaries == { <<>>, SUMMARY_PREV }

Env(search, broad, fits, boost) ==
    [search |-> search, broad |-> broad, fits |-> fits, boost |-> boost]

DefaultEnv == Env("hits", "hits", TRUE, 0)

Envs ==
    { DefaultEnv, Env("hits", "hits", TRUE, 250), Env("hits", "hits", FALSE, 0),
      Env("empty", "hits", TRUE, 0), Env("raise", "raise", TRUE, 50),
      Env("empty", "empty", TRUE, 0) }

search_handlers == { "handle_symptom_troubleshoot", "handle_symptom_troubleshoot_unvalidated" }

NoTurn ==
    [ exit |-> "none", response |-> NoRouted.response, session_after |-> EmptyDict,
      plan |-> NoPlan, candidates |-> NoCandidates, resolved |-> NoResolved,
      confidence |-> 0, routed |-> NoRouted, drift |-> FALSE, calls |-> <<>>,
      user_query |-> <<>>, conversation_summary |-> <<>>, session_before |-> EmptyDict,
      reply_ok |-> FALSE, env |-> DefaultEnv ]

Idle == [done |-> FALSE]

(***************************************************************************)
(* The conversation: handle_query turn after turn on one session           *)
(***************************************************************************)
Init ==
    /\ entities = EmptyDict
    /\ hd = Idle
    /\ ch = Idle
    /\ sp = Idle
    /\ turns = 0
    /\ last = NoTurn
    /\ rs = Idle
    /\ rt = Idle
    /\ pl = Idle
    /\ cf = Idle
    /\ ex = Idle
    /\ tn = Idle

\* whether a turn on this message and session calls planner.plan
calls_planner(user_query, session_entities) ==
    /\ ~TextFacts[user_query].low_signal
    /\ ~TextFacts[user_query].non_domain
    /\ ~is_followup_symptom_query(user_query, session_entities)

\* One call of handle_query.  An input that the turn never reads is fixed
\* to one value, since the turn is the same for every value of it: the
\* classifier reply when planner.plan is not called, the summary unless the
\* classifier failed (only the fallback plan reads the planning input), the
\* search outcomes when no symptom handler runs.  The first turn of a
\* conversation has no summary.
HandleQuery ==
    /\ turns < MaxTurns
    /\ last = NoTurn
    /\ \E user_query \in Messages :
       \E planned \in { calls_planner(user_query, entities) } :
       \E reply \in (IF planned THEN ClassifierReplies ELSE { FailedReply }) :
       \E conversation_summary \in (IF planned /\ ~reply.ok /\ turns > 0 THEN Summaries
                                    ELSE { <<>> }) :
       \E t0 \in { handle_query(user_query, conversation_summary, entities, reply,
                                DefaultEnv) } :
       \E env \in (IF t0.routed.handler \in search_handlers THEN Envs ELSE { DefaultEnv }) :
       \E t \in { IF env = DefaultEnv THEN t0
                  ELSE handle_query(user_query, conversation_summary, entities, reply,
                                    env) } :
          /\ entities' = t.session_after
          /\ last' = [ exit |-> t.exit, response |-> t.response,
                       session_after |-> t.session_after, plan |-> t.plan,
                       candidates |-> t.candidates, resolved |-> t.resolved,
                       confidence |-> t.confidence, routed |-> t.routed,
                       drift |-> t.drift, calls |-> t.calls,
                       user_query |-> user_query,
                       conversation_summary |-> conversation_summary,
                       session_before |-> entities,
                       reply_ok |-> reply.ok, env |-> env ]
    /\ turns' = turns + 1
    /\ UNCHANGED <<rs, rt, pl, cf, ex, tn, hd, ch, sp>>

\* The chat endpoint returns the response; the next request of the
\* conversation finds the session as the turn left it.
ChatReturn ==
    /\ last # NoTurn
    /\ last' = NoTurn
    /\ UNCHANGED <<entities, turns, rs, rt, pl, cf, ex, tn, hd, ch, sp>>

Next == HandleQuery \/ ChatReturn

Spec == Init /\ [][Next]_vars

(***************************************************************************)
(* validate_and_resolve called on its own: the initial states draw the     *)
(* arguments, ResolveCall applies the function.                            *)
(***************************************************************************)
\* plans that differ in the ids they carry, lower-case and empty included
ResolveIdPlans ==
    { Plan(i, 900, p, m, SYM_LEAK, None, None, SYM_ICE) :
        i \in { "part_lookup", "compatibility_check", "symptom_troubleshoot" },
        p \in { None, <<>>, part_known_lower, PS_UNKNOWN },
        m \in { None, model_known_lower, MODEL_UNKNOWN } }

\* plans that differ in query and symptom, for every intent
ResolveSymptomPlans ==
    { Plan(i, 900, None, None, qs[2], None, None, qs[1]) :
        i \in Intents,
        qs \in { <<None, None>>, <<None, SYM_LEAK>>, <<SYM_ICE, None>>,
                 << <<>>, SYM_LEAK >>, << <<>>, <<>> >>, << <<>>, None >> } }

ResolvePlans == ResolveIdPlans \cup ResolveSymptomPlans

ResolveCandidates ==
    { [part_id |-> p, model_id |-> m] :
        p \in { None, PS_KNOWN, PS_UNKNOWN }, m \in { None, MODEL_KNOWN, MODEL_UNKNOWN } }

\* sessions as merge_state leaves them
ResolveSessions ==
    { merge_state(EmptyDict,
                  [ NoResolved EXCEPT !.part_id = p, !.model_id = m,
                                      !.model_id_valid = (m = MODEL_KNOWN) ]) :
        p \in { None, PS_SECOND }, m \in { None, MODEL_KNOWN, MODEL_UNKNOWN } }

\* messages without a back-reference, with one for the part, for the model,
\* and for both
ResolveQueries == { M_item, M_this_part, M_my_model, M_model_with_it }

\* results of the two prefetch functions: for the ids of the candidates, for
\* no id, and for other ids
ResolvePrefetches(candidates) ==
    { [ part_data  |-> prefetch_part(candidates.part_id),
        model_info |-> prefetch_model(candidates.model_id) ],
      [ part_data  |-> prefetch_part(None), model_info |-> prefetch_model(None) ],
      [ part_data  |-> prefetch_part(PS_SECOND),
        model_info |-> prefetch_model(MODEL_UNKNOWN) ],
      [ part_data  |-> prefetch_part(PS_KNOWN),
        model_info |-> prefetch_model(MODEL_KNOWN) ] }

InitResolve ==
    /\ entities = EmptyDict
    /\ hd = Idle
    /\ ch = Idle
    /\ sp = Idle
    /\ turns = 0
    /\ last = NoTurn
    /\ rt = Idle
    /\ pl = Idle
    /\ cf = Idle
    /\ ex = Idle
    /\ tn = Idle
    /\ \E plan \in ResolvePlans, candidates \in ResolveCandidates,
          session_entities \in ResolveSessions, user_query \in ResolveQueries :
       \E prefetched \in ResolvePrefetches(candidates) :
          rs = [ done |-> FALSE, plan |-> plan, candidates |-> candidates,
                 session_entities |-> session_entities, user_query |-> user_query,
                 prefetched |-> prefetched, resolved |-> NoResolved ]

ResolveCall ==
    /\ ~rs.done
    /\ rs' = [ rs EXCEPT !.done = TRUE,
                         !.resolved = validate_and_resolve(
                                          rs.plan, rs.candidates, rs.session_entities,
                                          rs.user_query, rs.prefetched) ]
    /\ UNCHANGED <<entities, turns, last, rt, pl, cf, ex, tn, hd, ch, sp>>

NextResolve == ResolveCall

SpecResolve == InitResolve /\ [][NextResolve]_vars

(***************************************************************************)
(* route called on its own: the initial states draw the arguments,         *)
(* RouteCall applies the function.                                         *)
(***************************************************************************)
\* Resolved records of the shape validate_and_resolve builds: part_id is set
\* together with part_id_valid, model_id_valid only with a model_id, and a
\* symptom only for the symptom intent.  The ids need not be in the store:
\* the handlers look them up again.
ResolvedRecords ==
    { r \in [ intent : Intents, part_id : { None, PS_KNOWN, PS_UNKNOWN },
              model_id : { None, MODEL_KNOWN, MODEL_UNKNOWN },
              symptom : { None, SYM_ICE }, appliance : { None }, brand : { None },
              part_id_valid : BOOLEAN, model_id_valid : BOOLEAN ] :
        /\ r.part_id # None <=> r.part_id_valid
        /\ r.model_id_valid => r.model_id # None
        /\ r.symptom # None => r.intent = "symptom_troubleshoot" }

RouteConfidences == { 0, 300, 549, 550, 590, 600, 900, 1000 }

RouteSessions ==
    { EmptyDict, ("last_symptom" :> SYM_LEAK) @@ ("appliance" :> dishwasher) }

InitRoute ==
    /\ entities = EmptyDict
    /\ hd = Idle
    /\ ch = Idle
    /\ sp = Idle
    /\ turns = 0
    /\ last = NoTurn
    /\ rs = Idle
    /\ pl = Idle
    /\ cf = Idle
    /\ ex = Idle
    /\ tn = Idle
    /\ \E resolved \in ResolvedRecords, session_entities \in RouteSessions,
          confidence \in RouteConfidences, env \in Envs :
          rt = [ done |-> FALSE, resolved |-> resolved,
                 session_entities |-> session_entities, confidence |-> confidence,
                 env |-> env, routed |-> NoRouted ]

RouteCall ==
    /\ ~rt.done
    /\ rt' = [ rt EXCEPT !.done = TRUE,
                         !.routed = route(rt.resolved, rt.session_entities,
                                          rt.confidence, rt.env) ]
    /\ UNCHANGED <<entities, turns, last, rs, pl, cf, ex, tn, hd, ch, sp>>

NextRoute == RouteCall

SpecRoute == InitRoute /\ [][NextRoute]_vars

(***************************************************************************)
(* Properties of route (SpecRoute)                                         *)
(***************************************************************************)
PriorityRecord(resolved) ==
    /\ resolved.part_id # None
    /\ resolved.part_id_valid
    /\ resolved.intent \in { "part_lookup", "install_help" }

UnvalidatedSymptomRecord(resolved) ==
    /\ Truthy(resolved.symptom)
    /\ Truthy(resolved.model_id)
    /\ ~resolved.model_id_valid
    /\ ~PriorityRecord(resolved)
    /\ ~(/\ resolved.intent = "compatibility_check"
         /\ Truthy(resolved.part_id)
         /\ Truthy(resolved.model_id))

C2_ValidPartIsInStore ==
    (rs.done /\ rs.resolved.part_id_valid) =>
        /\ rs.resolved.part_id # None
        /\ rs.resolved.part_id \in DOMAIN part_id_map

\* a part validated by the map lookup while the prefetch holds another part
C2_Witness ==
    /\ rs.done
    /\ rs.resolved.part_id_valid
    /\ rs.resolved.part_id = PS_KNOWN
    /\ rs.prefetched.part_data.hit
    /\ rs.prefetched.part_data.part_id # PS_KNOWN

\* the model the session offers: only with a back-reference to the model
\* and an intent other than symptom_troubleshoot
EligibleSessionModel ==
    IF rs.plan.intent # "symptom_troubleshoot" /\ has_model_reference(rs.user_query)
    THEN Get(rs.session_entities, "model_id") ELSE None

\* the first model candidate in the order extractor, plan, session
FirstModelCandidate ==
    IF Truthy(rs.candidates.model_id) THEN rs.candidates.model_id
    ELSE IF Truthy(rs.plan.model_id) THEN rs.plan.model_id
    ELSE EligibleSessionModel

\* C3: whenever a model candidate exists (extractor, plan or eligible session
\* value), resolved.model_id is that candidate in upper case, in the model
\* map or not, and model_id_valid is true exactly when it is a key of the
\* model map.
C3_ModelNeverDiscarded ==
    (rs.done /\ Truthy(FirstModelCandidate)) =>
        /\ rs.resolved.model_id = upper(FirstModelCandidate)
        /\ rs.resolved.model_id_valid
              <=> upper(FirstModelCandidate) \in DOMAIN model_id_to_parts_map

\* an unknown model taken from the session is kept, flagged as not valid
C3_Witness ==
    /\ rs.done
    /\ ~Truthy(rs.candidates.model_id)
    /\ ~Truthy(rs.plan.model_id)
    /\ EligibleSessionModel = MODEL_UNKNOWN
    /\ rs.resolved.model_id = MODEL_UNKNOWN
    /\ ~rs.resolved.model_id_valid

SuppliedPart == Or(rs.candidates.part_id, rs.plan.part_id)

SuppliedModel == Or(rs.candidates.model_id, rs.plan.model_id)

\* C4: a part_id or model_id of the session is used only when neither the
\* extractor nor the plan supplies one, the intent is not
\* symptom_troubleshoot and the query holds a back-reference phrase for that
\* entity; with intent symptom_troubleshoot resolved.part_id and
\* resolved.model_id stay null when message and plan carry none.
C4_SessionReuseNeedsBackReference ==
    rs.done =>
        /\ Truthy(SuppliedPart) => rs.resolved.part_id \in { None, upper(SuppliedPart) }
        /\ Truthy(SuppliedModel) => rs.resolved.model_id = upper(SuppliedModel)
        /\ (/\ ~Truthy(SuppliedPart)
            /\ \/ rs.plan.intent = "symptom_troubleshoot"
               \/ ~has_part_reference(rs.user_query))
           => rs.resolved.part_id = None
        /\ (/\ ~Truthy(SuppliedModel)
            /\ \/ rs.plan.intent = "symptom_troubleshoot"
               \/ ~has_model_reference(rs.user_query))
           => rs.resolved.model_id = None

\* the session part is taken up: nothing supplied, a back-reference to the
\* part, an intent other than symptom_troubleshoot
C4_Witness ==
    /\ rs.done
    /\ ~Truthy(SuppliedPart)
    /\ rs.plan.intent # "symptom_troubleshoot"
    /\ has_part_reference(rs.user_query)
    /\ ~has_model_reference(rs.user_query)
    /\ Get(rs.session_entities, "part_id") = PS_SECOND
    /\ Get(rs.session_entities, "model_id") = MODEL_KNOWN
    /\ rs.resolved.part_id = PS_SECOND
    /\ rs.resolved.model_id = None

\* C5: resolved.symptom is non-null only when the intent is
\* symptom_troubleshoot; then it is plan.query when that is non-empty and
\* plan.symptom otherwise; for every other intent it is null even if the plan
\* carries a symptom.
C5_SymptomOnlyForSymptomIntent ==
    rs.done =>
        /\ rs.resolved.symptom # None => rs.plan.intent = "symptom_troubleshoot"
        /\ rs.plan.intent = "symptom_troubleshoot" =>
              rs.resolved.symptom = (IF rs.plan.query # None /\ rs.plan.query # <<>>
                                     THEN rs.plan.query ELSE rs.plan.symptom)
        /\ rs.plan.intent # "symptom_troubleshoot" => rs.resolved.symptom = None

\* an empty plan.query makes way for plan.symptom
C5_Witness ==
    /\ rs.done
    /\ rs.plan.intent = "symptom_troubleshoot"
    /\ rs.plan.query = <<>>
    /\ rs.plan.symptom = SYM_LEAK
    /\ rs.resolved.symptom = SYM_LEAK

(***************************************************************************)
(* Properties of handle_query (Spec).  last is the turn that just ran.     *)
(***************************************************************************)
\* the turn got past the two pre-filters
PastPrefilters == last.exit \in { "out_of_scope", "routed" }

\* session appliance and resolved appliance both set, differing whatever
\* the case of their letters
ApplianceChanged ==
    /\ PastPrefilters
    /\ Truthy(Get(last.session_before, "appliance"))
    /\ Truthy(last.resolved.appliance)
    /\ lower(Get(last.session_before, "appliance")) # lower(last.resolved.appliance)

\* position of a call in the log of the turn, 0 when absent
CallIndex(name) ==
    IF \E i \in 1..Len(last.calls) : last.calls[i] = name
    THEN CHOOSE i \in 1..Len(last.calls) : last.calls[i] = name
    ELSE 0

\* the session was emptied before merge_state ran and holds what the turn
\* resolved and nothing else
SessionReset ==
    /\ CallIndex("session_entities.clear") > 0
    /\ CallIndex("session_entities.clear") < CallIndex("merge_state")
    /\ last.session_after = merge_state(EmptyDict, last.resolved)
    /\ "last_symptom" \in DOMAIN last.session_after =>
          /\ Truthy(last.resolved.symptom)
          /\ last.session_after["last_symptom"] = last.resolved.symptom

\* C6 as stated: on every turn where the session appliance and the resolved
\* appliance are both set and differ case-insensitively, the session is
\* emptied before merge_state and keeps no earlier last_symptom.
C6_AsStated == ApplianceChanged => SessionReset

\* C6: on a turn that passes the scope check and where the session
\* appliance and the resolved appliance are both set and differ
\* case-insensitively, handle_query empties the session before merge_state
\* runs, so the session keeps no last_symptom stored before the reset.
C6_DriftClearsSession ==
    (ApplianceChanged /\ last.exit = "routed") => SessionReset

\* a refrigerator session with a symptom, then a dishwasher turn without one
C6_Witness ==
    /\ ApplianceChanged
    /\ last.exit = "routed"
    /\ "last_symptom" \in DOMAIN last.session_before
    /\ "last_symptom" \notin DOMAIN last.session_after
    /\ Get(last.session_after, "appliance") = last.resolved.appliance

\* what the non-domain filter looks for, read off the message
HasPartId(user_query) == search_part_id(upper(user_query)) # None

HasModelLikeTokenWithDigit(user_query) ==
    \E i \in word_starts(upper(user_query)) :
        LET token == word_at(upper(user_query), i)
        IN  is_model_token(token) /\ ~startswith_PS(token) /\ has_digit(token)

HasApplianceTerm(user_query) ==
    \E term \in appliance_terms : contains(lower(strip(user_query)), term)

HasGeneralMarker(user_query) ==
    \E marker \in general_markers : contains(lower(strip(user_query)), marker)

HasOutOfScopeKeyword(user_query) ==
    \E keyword \in OUT_OF_SCOPE_KEYWORDS :
        search_word_bounded(lower(user_query), keyword)

HasFollowUpPhrase(user_query) ==
    \E phrase \in followup_markers :
        \E i \in 1..Len(user_query) :
            /\ i + Len(phrase) - 1 <= Len(user_query)
            /\ lower(SubSeq(user_query, i, i + Len(phrase) - 1)) = phrase

\* the traits of each message of the model, computed once
MessageTraits ==
    [ user_query \in Messages |->
        [ part_id              |-> HasPartId(user_query),
          model_like_digit     |-> HasModelLikeTokenWithDigit(user_query),
          appliance_term       |-> HasApplianceTerm(user_query),
          general_marker       |-> HasGeneralMarker(user_query),
          out_of_scope_keyword |-> HasOutOfScopeKeyword(user_query),
          followup_phrase      |-> HasFollowUpPhrase(user_query),
          low_signal           |-> is_low_signal_query(user_query),
          non_domain           |-> is_obvious_non_domain_query(user_query) ] ]

\* the plan names an appliance outside the supported ones
UnsupportedAppliance ==
    /\ Truthy(last.plan.appliance)
    /\ lower(last.plan.appliance) \notin { refrigerator, dishwasher, fridge }

\* nothing resolved and an out-of-scope keyword in the message
UnsupportedKeyword ==
    /\ ~Truthy(last.resolved.appliance)
    /\ ~Truthy(last.resolved.part_id)
    /\ ~Truthy(last.resolved.model_id)
    /\ MessageTraits[last.user_query].out_of_scope_keyword

\* C7: on every turn past the pre-filters whose plan names an appliance
\* outside refrigerator, dishwasher, fridge, or that resolves no appliance,
\* part_id or model_id and whose message holds an out-of-scope keyword as a
\* whole word, the response is clarification_needed with
\* requires_clarification true, confidence 0.0 and a message naming the
\* refrigerator and dishwasher scope, and no routing handler is invoked.
C7_OutOfScopeClarification ==
    (PastPrefilters /\ (UnsupportedAppliance \/ UnsupportedKeyword)) =>
        /\ last.response.type = "clarification_needed"
        /\ last.response.requires_clarification
        /\ last.response.confidence = 0
        /\ last.response.message \in { "scope_appliance", "scope_keyword" }
        /\ last.routed = NoRouted
        /\ CallIndex("route") = 0
        /\ \A i \in 1..Len(last.calls) :
              last.calls[i] \in { "extract_candidates", "planner.plan",
                                  "_build_followup_symptom_plan",
                                  "validate_and_resolve", "check_scope" }

\* a keyword rejection: nothing resolved, "oven" in the message
C7_Witness ==
    /\ PastPrefilters
    /\ ~UnsupportedAppliance
    /\ UnsupportedKeyword
    /\ last.response.type = "clarification_needed"
    /\ last.response.message = "scope_keyword"

\* C8: for every message caught by the low-signal filter or the
\* obvious-non-domain filter, handle_query returns clarification_needed with
\* requires_clarification true and calls neither planner.plan, nor the
\* extractor, the resolver or a handler; the non-domain filter never fires
\* for a message with a part id, a model-like token with a digit or an
\* appliance term.
C8_PrefiltersShortCircuit ==
    last.exit # "none" =>
        /\ (\/ MessageTraits[last.user_query].low_signal
            \/ MessageTraits[last.user_query].non_domain) =>
              /\ last.exit \in { "low_signal", "non_domain" }
              /\ last.response.type = "clarification_needed"
              /\ last.response.requires_clarification
              /\ last.calls = <<>>
              /\ last.session_after = last.session_before
        /\ (\/ MessageTraits[last.user_query].part_id
            \/ MessageTraits[last.user_query].model_like_digit
            \/ MessageTraits[last.user_query].appliance_term) =>
              /\ ~MessageTraits[last.user_query].non_domain
              /\ last.exit # "non_domain"

\* a general-knowledge message is answered without any call, on a session
\* that holds entities
C8_Witness ==
    /\ last.exit = "non_domain"
    /\ MessageTraits[last.user_query].general_marker
    /\ last.calls = <<>>
    /\ last.session_before # EmptyDict
    /\ last.response.type = "clarification_needed"

\* symptom intent with a symptom, and no model from the message or the plan
SymptomWithoutModel ==
    /\ last.plan.intent = "symptom_troubleshoot"
    /\ Truthy(Or(last.plan.query, last.plan.symptom))
    /\ ~Truthy(last.candidates.model_id)
    /\ ~Truthy(last.plan.model_id)

ModelRequiredResponse ==
    /\ last.response.type = "model_required"
    /\ last.routed.handler = "handle_model_required"
    /\ last.response.confidence = Max(last.confidence, 550)

\* C9 as stated: whenever the plan intent is symptom_troubleshoot with a
\* symptom and neither message nor plan supplies a model_id, handle_query
\* returns model_required, with the confidence floored to 0.55.
C9_AsStated == SymptomWithoutModel => ModelRequiredResponse

\* C9: on a turn that passes the scope check, with plan intent
\* symptom_troubleshoot, a symptom, and no model_id from the message or the
\* plan, handle_query returns model_required at every confidence, whatever
\* part_id or model_id the session holds; a computed confidence below 0.55
\* is returned as 0.55.
C9_SymptomWithoutModelAsksForModel ==
    (SymptomWithoutModel /\ last.exit = "routed") => ModelRequiredResponse

\* the session holds a part and a model, the turn still asks for the model,
\* at the floor
C9_Witness ==
    /\ SymptomWithoutModel
    /\ last.exit = "routed"
    /\ Truthy(Get(last.session_before, "part_id"))
    /\ Truthy(Get(last.session_before, "model_id"))
    /\ last.confidence < 550
    /\ last.response.type = "model_required"
    /\ last.response.confidence = 550


(***************************************************************************)
(* Further properties of route (SpecRoute)                                 *)
(***************************************************************************)
\* what validate_and_resolve guarantees about the flags of a resolved
\* record: a part it sets is a key of the part map, and model_id_valid says
\* whether the model is a key of the model map
FlagsAgreeWithStore(resolved) ==
    /\ resolved.part_id_valid => resolved.part_id \in DOMAIN part_id_map
    /\ resolved.model_id_valid <=> resolved.model_id \in DOMAIN model_id_to_parts_map

CompatibilityRecord(resolved) ==
    /\ resolved.intent = "compatibility_check"
    /\ Truthy(resolved.part_id)
    /\ Truthy(resolved.model_id)

ModelOnlyRecord(resolved) ==
    /\ Truthy(resolved.model_id)
    /\ ~Truthy(resolved.symptom)
    /\ ~Truthy(resolved.part_id)

\* C12: in route, with confidence at or above the threshold, a model_id
\* and neither a symptom nor a part_id in resolved: when the session carries
\* last_symptom a symptom-troubleshoot handler is invoked with the carried
\* symptom (the validated one iff model_id_valid, otherwise the unvalidated
\* one with the confidence floored to 0.60) and the issue-required handler
\* is not invoked; when the session carries no last_symptom the response
\* is issue_required.
C12_ModelOnlyFollowUp ==
    (/\ rt.done
     /\ rt.confidence >= confidence_threshold
     /\ ModelOnlyRecord(rt.resolved)) =>
        IF Truthy(Get(rt.session_entities, "last_symptom"))
        THEN /\ rt.routed.symptom = Get(rt.session_entities, "last_symptom")
             /\ rt.routed.handler # "handle_issue_required"
             /\ IF rt.resolved.model_id_valid
                THEN /\ rt.routed.handler = "handle_symptom_troubleshoot"
                     /\ rt.routed.confidence = rt.confidence
                ELSE /\ rt.routed.handler = "handle_symptom_troubleshoot_unvalidated"
                     /\ rt.routed.confidence = Max(rt.confidence, 600)
                     /\ rt.routed.response.confidence >= 600
        ELSE /\ rt.routed.handler = "handle_issue_required"
             /\ rt.routed.response.type = "issue_required"

\* a bare unknown model after a turn that stored a symptom: the carried
\* symptom goes to the unvalidated handler, 0.55 floored to 0.60
C12_Witness ==
    /\ rt.done
    /\ rt.confidence = confidence_threshold
    /\ ModelOnlyRecord(rt.resolved)
    /\ ~rt.resolved.model_id_valid
    /\ Get(rt.session_entities, "last_symptom") = SYM_LEAK
    /\ rt.routed.handler = "handle_symptom_troubleshoot_unvalidated"
    /\ rt.routed.symptom = SYM_LEAK
    /\ rt.routed.confidence = 600
    /\ rt.routed.response.type = "symptom_solution"


(***************************************************************************)
(* ClaudePlanner.plan with its cache (planner.py).  One call of the        *)
(* classifier ends in one of:                                              *)
(*   "raise"      invoke_model raises (any Exception)                      *)
(*   "empty"      the reply has no content: _call_bedrock raises ValueError*)
(*   "unparsable" json.loads fails: _parse_response raises ValueError      *)
(*   "json"       a parsed value, which _validate_plan cleans or rejects   *)
(* A parsed value is described by whether it is a JSON object, the keys    *)
(* it has, and their values; a confidence is a number or some other text.  *)
(***************************************************************************)
TXT_NULL == <<"n", "u", "l", "l">>

TXT_NONE == <<"N", "o", "n", "e">>

TXT_VARIANT == <<" ", "I", "n", "s", "t", "a", "l", "l", " ", "p", "s", "1", "1", "7", "5", "2", " ">>

TXT_NEAR == <<"X", "P", "S", "1", "1", "7", "5", "2", " ", "P", "S", "1", "2", "3", "4">>

entity_keys == <<"part_id", "model_id", "symptom", "appliance", "brand", "query">>

\* a cache key that keeps the text as it was typed
cache_key_exact(user_input) == user_input

\* the cache key: hashlib.md5 of the normalised text, which stands here for
\* its digest
cache_key(user_input) == strip(lower(user_input))

\* one entity field as _validate_plan leaves it
clean_field(parsed, key) ==
    LET v == IF key \notin parsed.keys THEN None
             ELSE IF parsed.fields[key] \in { TXT_NULL, TXT_NONE, <<>> } THEN None
             ELSE parsed.fields[key]
    IN  IF key \in { "part_id", "model_id" } /\ Truthy(v) THEN strip(upper(v)) ELSE v

\* ClaudePlanner._validate_plan: the cleaned plan, or the exception raised
\* by item assignment on a value that is not an object or by float()
validate_plan(parsed) ==
    IF ~parsed.is_dict THEN [error |-> "TypeError", plan |-> NoPlan]
    ELSE IF "confidence" \in parsed.keys /\ ~parsed.confidence.number
    THEN [error |-> "ValueError", plan |-> NoPlan]
    ELSE [ error |-> "none",
           plan  |-> Plan(IF "intent" \in parsed.keys THEN parsed.intent
                          ELSE "general_question",
                          IF "confidence" \notin parsed.keys THEN 500
                          ELSE Max(0, Min(1000, parsed.confidence.value)),
                          clean_field(parsed, "part_id"),
                          clean_field(parsed, "model_id"),
                          clean_field(parsed, "symptom"),
                          clean_field(parsed, "appliance"),
                          clean_field(parsed, "brand"),
                          clean_field(parsed, "query")) ]

\* the try block of plan(): _call_bedrock, _parse_response, _validate_plan
plan_try(user_input, reply) ==
    IF reply.kind = "raise" THEN [error |-> "Exception", plan |-> NoPlan]
    ELSE IF reply.kind \in { "empty", "unparsable" }
    THEN [error |-> "ValueError", plan |-> NoPlan]
    ELSE validate_plan(reply.parsed)

\* an except clause for ValueError only
caught_value_error_only(error) == error = "ValueError"

\* the except clauses of plan(): ValueError, then Exception
caught(error) == error \in { "ValueError", "TypeError", "Exception" }

\* the cache limit of plan(), scaled down (the source stops inserting at
\* 1000 entries)
MaxCacheEntries == 2

(***************************************************************************)
(* The planner called again and again: the replies and the input texts     *)
(***************************************************************************)
Number(value) == [number |-> TRUE, value |-> value]

NotANumber == [number |-> FALSE, value |-> 0]

Parsed(is_dict, keys, intent, confidence, fields) ==
    [ is_dict |-> is_dict, keys |-> keys, intent |-> intent,
      confidence |-> confidence, fields |-> fields ]

NoFields == [k \in Range(entity_keys) |-> None]

ParsedValues ==
    { \* an object with every field, ids in lower case, "null" for no model
      Parsed(TRUE, { "intent", "confidence" } \cup Range(entity_keys), "install_help",
             Number(1500),
             [NoFields EXCEPT !["part_id"] = part_known_lower,
                              !["model_id"] = TXT_NULL,
                              !["symptom"] = <<>>,
                              !["appliance"] = TXT_NONE]),
      \* an empty object
      Parsed(TRUE, {}, "none", Number(0), NoFields),
      \* an object whose confidence is not a number
      Parsed(TRUE, { "intent", "confidence" }, "part_lookup", NotANumber, NoFields),
      \* an object whose intent is a label outside the taxonomy of the prompt
      Parsed(TRUE, { "intent", "confidence" }, "greeting", Number(900), NoFields),
      \* a JSON array
      Parsed(FALSE, {}, "none", Number(0), NoFields) }

NoParsed == Parsed(FALSE, {}, "none", Number(0), NoFields)

PlannerReplies ==
    { [kind |-> k, parsed |-> NoParsed] : k \in { "raise", "empty", "unparsable" } }
        \cup { [kind |-> "json", parsed |-> v] : v \in ParsedValues }

PlannerInputs == { M_install_part, TXT_VARIANT, TXT_NEAR, M_capital, M_empty }

\* the input texts after trimming and lowercasing
Normalised == [ user_input \in PlannerInputs |-> lower(strip(user_input)) ]

NeverPlanned == [plan |-> NoPlan, stored |-> FALSE]

\* what plan() computes from the input text alone, and what its try block
\* ends with for each reply
PlannerFacts ==
    [ user_input \in PlannerInputs |->
        [ cache_key |-> cache_key(user_input),
          fallback_plan |-> fallback_plan(user_input) ] ]

TryResults == [ reply \in PlannerReplies |-> plan_try(<<>>, reply) ]

\* ClaudePlanner.plan: the plan returned, the cache afterwards, whether the
\* classifier was invoked and whether an exception left plan()
ClaudePlanner_plan(cache, user_input, reply) ==
    LET key == PlannerFacts[user_input].cache_key
        t   == TryResults[reply]
    IN  IF key \in DOMAIN cache
        THEN [ plan |-> cache[key], cache |-> cache, invoked |-> FALSE,
               raised |-> FALSE, error |-> "none" ]
        ELSE IF t.error = "none"
        THEN [ plan |-> t.plan,
               cache |-> IF Cardinality(DOMAIN cache) < MaxCacheEntries
                         THEN Put(cache, key, t.plan) ELSE cache,
               invoked |-> TRUE, raised |-> FALSE, error |-> "none" ]
        ELSE IF caught(t.error)
        THEN [ plan |-> PlannerFacts[user_input].fallback_plan, cache |-> cache,
               invoked |-> TRUE, raised |-> FALSE, error |-> t.error ]
        ELSE [ plan |-> NoPlan, cache |-> cache, invoked |-> TRUE,
               raised |-> TRUE, error |-> t.error ]

NoCall ==
    [ called |-> FALSE, user_input |-> <<>>, reply |-> [kind |-> "raise", parsed |-> NoParsed],
      plan |-> NoPlan, invoked |-> FALSE, raised |-> FALSE,
      prior |-> NoPlan, prior_stored |-> FALSE, error |-> "none" ]

InitPlan ==
    /\ entities = EmptyDict
    /\ hd = Idle
    /\ ch = Idle
    /\ sp = Idle
    /\ turns = 0
    /\ last = NoTurn
    /\ rs = Idle
    /\ rt = Idle
    /\ cf = Idle
    /\ ex = Idle
    /\ tn = Idle
    /\ pl = [ cache |-> EmptyDict, last |-> NoCall,
              returned |-> [k \in Range(Normalised) |-> NeverPlanned] ]

\* one call of plan(); pl.returned remembers, for each normalised text, the
\* plan of the latest call on it and whether that call found or left the
\* plan in the cache; pl.last holds what the call did and what the previous
\* call on the same normalised text had returned
PlanCall ==
    /\ \E user_input \in PlannerInputs, reply \in PlannerReplies :
       \E r \in { ClaudePlanner_plan(pl.cache, user_input, reply) } :
          pl' = [ cache |-> r.cache,
                  returned |-> IF r.raised THEN pl.returned
                               ELSE [pl.returned EXCEPT ![Normalised[user_input]] =
                                        [ plan |-> r.plan,
                                          stored |-> PlannerFacts[user_input].cache_key
                                                        \in DOMAIN r.cache ]],
                  last |-> [ called |-> TRUE, user_input |-> user_input,
                             reply |-> IF r.invoked THEN reply ELSE NoCall.reply,
                             plan |-> r.plan, invoked |-> r.invoked, raised |-> r.raised,
                             prior |-> pl.returned[Normalised[user_input]].plan,
                             prior_stored |-> pl.returned[Normalised[user_input]].stored,
                             error |-> r.error ] ]
    /\ UNCHANGED <<entities, turns, last, rs, rt, cf, ex, tn, hd, ch, sp>>

NextPlan == PlanCall

SpecPlan == InitPlan /\ [][NextPlan]_vars

(***************************************************************************)
(* Properties of plan() (SpecPlan)                                         *)
(***************************************************************************)
\* the text holds a token PS followed by at least five digits, in either case
HoldsPartToken(text) ==
    \E i \in word_starts(text) :
        LET w == upper(word_at(text, i))
        IN  Len(w) >= 7 /\ w[1] = "P" /\ w[2] = "S"
            /\ \A k \in 3..Len(w) : w[k] \in DigitChars

HasPartToken == [ user_input \in PlannerInputs |-> HoldsPartToken(user_input) ]

\* C13: plan() never propagates a failure: when the classifier call raises,
\* returns an empty reply, returns unparsable output, or validation of the
\* parsed reply fails, plan() returns the fallback plan, which has intent
\* part_lookup and confidence 0.55 when the input holds a PS-plus-five-digits
\* token and intent general_question and confidence 0.3 otherwise.
C13_PlannerFailureGivesFallback ==
    (pl.last.called /\ pl.last.invoked /\ pl.last.error # "none") =>
        /\ ~pl.last.raised
        /\ pl.last.plan.intent =
              IF HasPartToken[pl.last.user_input] THEN "part_lookup"
              ELSE "general_question"
        /\ pl.last.plan.confidence =
              IF HasPartToken[pl.last.user_input] THEN 550 ELSE 300

\* a reply that parses but fails validation, on a text with a part id in
\* lower case: the fallback plan is part_lookup at 0.55
C13_Witness ==
    /\ pl.last.called
    /\ pl.last.invoked
    /\ pl.last.reply.kind = "json"
    /\ pl.last.error = "TypeError"
    /\ pl.last.user_input = TXT_VARIANT
    /\ ~pl.last.raised
    /\ pl.last.plan.intent = "part_lookup"
    /\ pl.last.plan.confidence = 550
    /\ pl.last.plan.part_id = PS_KNOWN

\* C15 (as stated): any two calls of plan() whose inputs are equal after
\* lowercasing and trimming return identical plans, and the later one makes
\* no classifier invocation, whatever happened on the first call.
C15_AsStated ==
    (pl.last.called /\ pl.last.prior # NoPlan) =>
        /\ pl.last.plan = pl.last.prior
        /\ ~pl.last.invoked

\* C15: planner cache round-trip: once a call of plan() has stored its
\* plan under the normalised text, every later call whose input is equal
\* after lowercasing and trimming returns that same plan and makes no
\* classifier invocation, however many other inputs were planned in between.
C15_CacheRoundTrip ==
    (pl.last.called /\ pl.last.prior # NoPlan /\ pl.last.prior_stored) =>
        /\ pl.last.plan = pl.last.prior
        /\ ~pl.last.invoked

\* the second call differs from the first in case and blanks only and is
\* answered from the cache
C15_Witness ==
    /\ pl.last.called
    /\ pl.last.user_input = TXT_VARIANT
    /\ pl.last.prior_stored
    /\ pl.last.prior # NoPlan
    /\ pl.last.prior.intent = "install_help"
    /\ pl.last.plan = pl.last.prior
    /\ ~pl.last.invoked
    /\ Cardinality(DOMAIN pl.cache) = MaxCacheEntries


(***************************************************************************)
(* Properties of a turn whose classifier call fails (Spec)                 *)
(***************************************************************************)
ResponseTypes ==
    { "part_lookup", "compatibility", "symptom_solution", "model_required",
      "issue_required", "clarification_needed" }

\* the turn called planner.plan and the classifier call raised
ClassifierFailed ==
    /\ last # NoTurn
    /\ CallIndex("planner.plan") # 0
    /\ ~last.reply_ok

\* C14 (as stated): when the classifier raises, handle_query returns a
\* non-null AgentResponse whose confidence is at most 0.55.
C14_AsStated ==
    ClassifierFailed =>
        /\ last.response.type \in ResponseTypes
        /\ last.response.confidence <= 550


\* C14: when the classifier raises, handle_query still returns a non-null
\* AgentResponse; the plan of the turn is the fallback plan, whose
\* confidence is at most 0.55, and the confidence of the response is at
\* most 0.82: the evidence terms of compute_confidence and the part-lookup
\* handler add to 0.4 times the plan confidence.
C14_ClassifierFailureStillAnswers ==
    ClassifierFailed =>
        /\ last.response.type \in ResponseTypes
        /\ last.plan.intent \in { "part_lookup", "general_question" }
        /\ last.plan.confidence <= 550
        /\ last.response.confidence <= 820

\* the first turn of a conversation names a known model and a known part
\* and the classifier raises: the answer is a part lookup at 0.77
C14_Witness ==
    /\ ClassifierFailed
    /\ turns = 1
    /\ last.user_query = M_model_then_part
    /\ last.plan.confidence = 550
    /\ last.confidence = 720
    /\ last.response.type = "part_lookup"
    /\ last.response.confidence = 770


(***************************************************************************)
(* The scoring step of a turn on its own (router.py 230-240): the drift    *)
(* reset, compute_confidence, merge_state.  The initial states draw the    *)
(* arguments and one signal to raise; ScoreCall runs the step and applies  *)
(* compute_confidence once more with that signal raised.                   *)
(***************************************************************************)
\* handle_query, from the drift check to the merge
score_and_merge(session_entities, resolved, plan, candidates) ==
    LET drift   == check_topic_drift(session_entities, resolved)
        cleared == IF drift THEN EmptyDict ELSE session_entities
    IN  [ drift         |-> drift,
          session_read  |-> cleared,
          confidence    |-> compute_confidence(resolved, plan, candidates, cleared),
          session_after |-> merge_state(cleared, resolved) ]

ScoreResolved ==
    { [ intent |-> IF symptom # None THEN "symptom_troubleshoot" ELSE "part_lookup",
        part_id |-> part_id, model_id |-> model_id, symptom |-> symptom,
        appliance |-> appliance, brand |-> brand,
        part_id_valid |-> part_id_valid, model_id_valid |-> model_id_valid ] :
        part_id \in { None, PS_KNOWN }, model_id \in { None, MODEL_KNOWN },
        symptom \in { None, SYM_ICE }, appliance \in { None, dishwasher, Refrigerator },
        brand \in { None, BRAND_GE },
        part_id_valid \in BOOLEAN, model_id_valid \in BOOLEAN }

ScorePlanConfidences == { 0, 300, 500, 550, 900, 1000 }

ScoreCandidates ==
    [ part_id : { None, PS_KNOWN }, model_id : { None, MODEL_KNOWN } ]

ScoreSessions ==
    { EmptyDict,
      ("model_id" :> MODEL_KNOWN) @@ ("model_id_valid" :> TRUE),
      ("last_symptom" :> SYM_LEAK) @@ ("appliance" :> dishwasher),
      ("model_id" :> MODEL_UNKNOWN) @@ ("model_id_valid" :> FALSE)
          @@ ("last_symptom" :> SYM_LEAK) @@ ("appliance" :> refrigerator),
      ("part_id" :> PS_SECOND) @@ ("brand" :> BRAND_WHIRLPOOL)
          @@ ("appliance" :> dishwasher) }

Signals == { "part_id_valid", "model_present", "model_validated", "planner_confidence" }

\* the arguments with one signal raised and everything else as it was; the
\* arguments themselves when the signal is already at its highest
raise_signal(resolved, plan, signal) ==
    IF signal = "part_id_valid"
    THEN [ resolved |-> [resolved EXCEPT !.part_id_valid = TRUE], plan |-> plan ]
    ELSE IF signal = "model_present" /\ ~Truthy(resolved.model_id)
    THEN [ resolved |-> [resolved EXCEPT !.model_id = MODEL_UNKNOWN], plan |-> plan ]
    ELSE IF signal = "model_validated" /\ Truthy(resolved.model_id)
    THEN [ resolved |-> [resolved EXCEPT !.model_id_valid = TRUE], plan |-> plan ]
    ELSE IF signal = "planner_confidence"
            /\ \E c \in ScorePlanConfidences : c > plan.confidence
    THEN [ resolved |-> resolved,
           plan |-> [plan EXCEPT !.confidence =
                        CHOOSE c \in ScorePlanConfidences :
                            /\ c > plan.confidence
                            /\ \A d \in ScorePlanConfidences :
                                  d > plan.confidence => c <= d] ]
    ELSE [ resolved |-> resolved, plan |-> plan ]

InitScore ==
    /\ entities = EmptyDict
    /\ hd = Idle
    /\ ch = Idle
    /\ sp = Idle
    /\ turns = 0
    /\ last = NoTurn
    /\ rs = Idle
    /\ rt = Idle
    /\ pl = Idle
    /\ ex = Idle
    /\ tn = Idle
    /\ \E resolved \in ScoreResolved, c \in ScorePlanConfidences,
          candidates \in ScoreCandidates, session_entities \in ScoreSessions,
          signal \in Signals :
          cf = [ done |-> FALSE, resolved |-> resolved,
                 plan |-> [NoPlan EXCEPT !.intent = resolved.intent, !.confidence = c],
                 candidates |-> candidates, session_entities |-> session_entities,
                 signal |-> signal, drift |-> FALSE, session_read |-> EmptyDict,
                 confidence |-> 0, session_after |-> EmptyDict,
                 raised |-> [resolved |-> resolved, plan |-> NoPlan],
                 raised_confidence |-> 0 ]

ScoreCall ==
    /\ ~cf.done
    /\ \E r \in { score_and_merge(cf.session_entities, cf.resolved, cf.plan,
                                  cf.candidates) },
          a \in { raise_signal(cf.resolved, cf.plan, cf.signal) } :
          cf' = [ cf EXCEPT !.done = TRUE, !.drift = r.drift,
                            !.session_read = r.session_read,
                            !.confidence = r.confidence,
                            !.session_after = r.session_after,
                            !.raised = a,
                            !.raised_confidence =
                                compute_confidence(a.resolved, a.plan, cf.candidates,
                                                   r.session_read) ]
    /\ UNCHANGED <<entities, turns, last, rs, rt, pl, ex, tn, hd, ch, sp>>

NextScore == ScoreCall

SpecScore == InitScore /\ [][NextScore]_vars

(***************************************************************************)
(* Properties of compute_confidence (SpecScore)                            *)
(***************************************************************************)
Indicator(b) == IF b THEN 1 ELSE 0

\* the session as previous turns left it, emptied when the appliance of the
\* turn differs from the appliance of the session
SessionBeforeMerge ==
    IF /\ "appliance" \in DOMAIN cf.session_entities
       /\ cf.resolved.appliance # None
       /\ lower(cf.session_entities["appliance"]) # lower(cf.resolved.appliance)
    THEN EmptyDict ELSE cf.session_entities

\* C16: compute_confidence equals min(1.0, 0.10*[part candidate and resolved
\* part_id] + 0.10*[model candidate and resolved model_id] + 0.15*[part_id_valid]
\* + (0.15 if model_id_valid, else 0.08 if model_id present, else 0)
\* + 0.4*planner_confidence + 0.05*[session model_id and resolved symptom]
\* + 0.05*[session last_symptom]); the two model credits are never both
\* added; the result lies in [0,1]; the session read is the one left by
\* previous turns after any drift reset and before this turn's merge.
C16_ConfidenceFormula ==
    cf.done =>
        LET s   == SessionBeforeMerge
            sum == 100 * Indicator(cf.candidates.part_id # None
                                   /\ cf.resolved.part_id # None)
                 + 100 * Indicator(cf.candidates.model_id # None
                                   /\ cf.resolved.model_id # None)
                 + 150 * Indicator(cf.resolved.part_id_valid)
                 + (IF cf.resolved.model_id_valid THEN 150
                    ELSE IF cf.resolved.model_id # None THEN 80 ELSE 0)
                 + (4 * cf.plan.confidence) \div 10
                 + 50 * Indicator("model_id" \in DOMAIN s /\ cf.resolved.symptom # None)
                 + 50 * Indicator("last_symptom" \in DOMAIN s)
        IN  /\ cf.confidence = IF sum < 1000 THEN sum ELSE 1000
            /\ cf.confidence \in 0..1000
            /\ cf.session_read = s

\* a turn that changes the appliance: the session's last_symptom is not
\* counted, the symptom the turn resolved is not counted either, and the
\* validated model counts 0.15 and not 0.23
C16_Witness ==
    /\ cf.done
    /\ cf.drift
    /\ "last_symptom" \in DOMAIN cf.session_entities
    /\ cf.resolved.symptom # None
    /\ cf.resolved.model_id_valid
    /\ cf.resolved.model_id # None
    /\ cf.resolved.part_id = None
    /\ ~cf.resolved.part_id_valid
    /\ cf.candidates.model_id = None
    /\ cf.plan.confidence = 900
    /\ cf.confidence = 510
    /\ "last_symptom" \in DOMAIN cf.session_after

\* C17: with all other inputs fixed, changing part_id_valid from false to
\* true, the model from absent to present-unvalidated or from
\* present-unvalidated to validated, or raising the planner confidence,
\* never lowers the value returned by compute_confidence.
C17_ConfidenceMonotonic ==
    cf.done => cf.raised_confidence >= cf.confidence

\* validating a model that was present and unvalidated raises 0.08 to 0.15
C17_Witness ==
    /\ cf.done
    /\ cf.signal = "model_validated"
    /\ cf.resolved.model_id # None
    /\ ~cf.resolved.model_id_valid
    /\ cf.raised.resolved.model_id_valid
    /\ cf.raised.resolved.model_id = cf.resolved.model_id
    /\ cf.raised.plan = cf.plan
    /\ cf.raised_confidence = cf.confidence + 70


(***************************************************************************)
(* One call of handle_query on any session, with a failure injected: an    *)
(* exception may be raised at the start of any stage of the turn.  The     *)
(* stages in the order of the source: the pre-filters, extract_candidates, *)
(* the planner call, the prefetches, validate_and_resolve, the scope and   *)
(* drift checks, compute_confidence, merge_state, route, the handler; and  *)
(* the write of the metrics record, which log_query guards itself.         *)
(***************************************************************************)
pipeline_stages ==
    << "prefilter", "extraction", "planning", "prefetch", "resolution", "guardrails",
       "scoring", "merge", "routing", "handler" >>

Faults == { "none", "metrics_write" } \cup Range(pipeline_stages)

\* a try block that ends before route is called
caught_before_route_only(stage) ==
    stage \in Range(pipeline_stages) \ { "routing", "handler" }

\* whether an exception raised in the stage is inside the try block of
\* handle_query, whose handler is 'except Exception'
caught_by_handle_query(stage) == stage \in Range(pipeline_stages)

\* whether a turn that ends as t does gets as far as the stage
stage_reached(t, stage) ==
    IF stage = "prefilter" THEN TRUE
    ELSE IF stage \in { "extraction", "planning", "prefetch", "resolution", "guardrails" }
    THEN t.exit \in { "out_of_scope", "routed" }
    ELSE t.exit = "routed"

\* the session dict when the exception is raised: it is mutated in place,
\* emptied by the drift reset and merged before route is called
session_at(t, session_entities, stage) ==
    IF stage \in { "routing", "handler" } THEN t.session_after
    ELSE IF stage \in { "scoring", "merge" } /\ t.drift THEN EmptyDict
    ELSE session_entities

\* handle_query when an exception is raised at the stage: t is the turn as
\* it ends without the exception
handle_query_failing(t, session_entities, fault) ==
    IF fault \in Range(pipeline_stages) /\ stage_reached(t, fault)
    THEN IF caught_by_handle_query(fault)
         THEN [ raised |-> FALSE, failed |-> TRUE, exit |-> "error",
                response |-> error_response, handler |-> t.routed.handler,
                session_after |-> session_at(t, session_entities, fault) ]
         ELSE [ raised |-> TRUE, failed |-> TRUE, exit |-> "error",
                response |-> NoRouted.response, handler |-> t.routed.handler,
                session_after |-> session_at(t, session_entities, fault) ]
    ELSE [ raised |-> FALSE, failed |-> t.routed.response = Raised, exit |-> t.exit,
           response |-> t.response, handler |-> t.routed.handler,
           session_after |-> t.session_after ]

TurnSessions ==
    { EmptyDict,
      ("part_id" :> PS_KNOWN),
      ("model_id" :> MODEL_KNOWN) @@ ("model_id_valid" :> TRUE)
          @@ ("appliance" :> refrigerator),
      ("model_id" :> MODEL_UNKNOWN) @@ ("model_id_valid" :> FALSE)
          @@ ("last_symptom" :> SYM_LEAK) @@ ("appliance" :> dishwasher) }

InitTurn ==
    /\ entities = EmptyDict
    /\ hd = Idle
    /\ ch = Idle
    /\ sp = Idle
    /\ turns = 0
    /\ last = NoTurn
    /\ rs = Idle
    /\ rt = Idle
    /\ pl = Idle
    /\ cf = Idle
    /\ ex = Idle
    /\ \E session_entities \in TurnSessions :
          tn = [ done |-> FALSE, session_entities |-> session_entities ]

TurnCall ==
    /\ ~tn.done
    /\ \E user_query \in Messages :
       \E planned \in { calls_planner(user_query, tn.session_entities) } :
       \E reply \in (IF planned THEN ClassifierReplies ELSE { FailedReply }) :
       \E conversation_summary \in (IF planned /\ ~reply.ok THEN Summaries ELSE { <<>> }) :
       \E t0 \in { handle_query(user_query, conversation_summary, tn.session_entities,
                                reply, DefaultEnv) } :
       \E env \in (IF t0.routed.handler \in search_handlers THEN Envs ELSE { DefaultEnv }) :
       \E t \in { IF env = DefaultEnv THEN t0
                  ELSE handle_query(user_query, conversation_summary,
                                    tn.session_entities, reply, env) } :
       \E fault \in Faults :
          tn' = [ done |-> TRUE, session_entities |-> tn.session_entities,
                  user_query |-> user_query, planned |-> planned,
                  reply_ok |-> reply.ok, env |-> env, fault |-> fault,
                  result |-> handle_query_failing(t, tn.session_entities, fault) ]
    /\ UNCHANGED <<entities, turns, last, rs, rt, pl, cf, ex, hd, ch, sp>>

NextTurn == TurnCall

SpecTurn == InitTurn /\ [][NextTurn]_vars

(***************************************************************************)
(* Properties of one call of handle_query (SpecTurn)                       *)
(***************************************************************************)
\* C18: an exception raised anywhere in the per-turn pipeline (extraction,
\* planning, prefetch, resolution, guardrails, scoring, merge, routing or a
\* handler) is caught inside handle_query, which returns type
\* clarification_needed with confidence 0.0 and requires_clarification
\* true; handle_query itself never raises.
C18_ExceptionsBecomeClarification ==
    tn.done =>
        /\ ~tn.result.raised
        /\ tn.result.failed =>
              /\ tn.result.response.type = "clarification_needed"
              /\ tn.result.response.confidence = 0
              /\ tn.result.response.requires_clarification

\* the part-lookup handler raises after merge_state has stored the part:
\* the turn answers with the error clarification
C18_Witness ==
    /\ tn.done
    /\ tn.fault = "handler"
    /\ tn.result.failed
    /\ tn.result.handler = "handle_part_lookup"
    /\ ~tn.result.raised
    /\ tn.result.response = error_response
    /\ tn.session_entities = EmptyDict
    /\ "part_id" \in DOMAIN tn.result.session_after

\* C19: every handle_query call, for every message, session, plan and
\* collaborator outcome (success, empty result or failure), yields one
\* AgentResponse whose type is one of part_lookup, compatibility,
\* symptom_solution, model_required, issue_required, clarification_needed and
\* whose confidence is in [0,1].
C19_AlwaysOneAnswer ==
    tn.done =>
        /\ ~tn.result.raised
        /\ tn.result.response.type \in ResponseTypes
        /\ tn.result.response.confidence \in 0..1000

\* the vector search raises on both attempts of the unvalidated symptom
\* handler and the turn still answers with parts
C19_Witness ==
    /\ tn.done
    /\ tn.fault = "none"
    /\ tn.env.search = "raise"
    /\ tn.env.broad = "raise"
    /\ tn.result.handler = "handle_symptom_troubleshoot_unvalidated"
    /\ tn.result.response.type = "symptom_solution"
    /\ ~tn.result.raised


(***************************************************************************)
(* extract_candidates called on its own: the initial states draw the text, *)
(* one token, two tokens with a separator or three words, ExtractCall      *)
(* applies the function and ExtractAgain applies it a second time.         *)
(***************************************************************************)
ExtractTokens ==
    { PS_KNOWN, part_known_lower, PS_SECOND, MODEL_KNOWN, model_known_lower,
      <<"P", "S", "1", "2", "3", "4">>,
      <<"X", "P", "S", "1", "1", "7", "5", "2">>,
      <<"P", "S", "1", "1", "7", "5", "2", "A">>,
      <<"P", "S", "_", "1", "1", "7", "5", "2">>,
      <<"A", "B", "C", "D", "E", "F", "G">>,
      <<"1", "2", "3", "4", "5", "6">>,
      <<"W", "D", "T", "_", "7", "8", "0", "1", "2", "3">>,
      <<"A", "1", "B", "2", "C", "3", "D", "4", "E", "5", "F", "6", "G", "7", "H", "8">>,
      <<"f", "i", "t", "s">> }

ExtractSeparators == { <<" ">>, <<"-">>, <<",", " ">> }

\* the words of the three-word texts: a part, a model, a long word, a short one
ExtractWords ==
    { part_known_lower, MODEL_KNOWN, <<"r", "e", "p", "l", "a", "c", "e">>, <<"f", "i", "t", "s">> }

ExtractTexts ==
    { <<>>, <<" ">> } \cup ExtractTokens
        \cup { <<" ">> \o a \o <<" ">> : a \in ExtractTokens }
        \cup { a \o sep \o b : a \in ExtractTokens, b \in ExtractTokens,
                               sep \in ExtractSeparators }
        \cup { a \o <<" ">> \o b \o <<" ">> \o c : a \in ExtractWords, b \in ExtractWords,
                                                 c \in ExtractWords }

InitExtract ==
    /\ entities = EmptyDict
    /\ hd = Idle
    /\ ch = Idle
    /\ sp = Idle
    /\ turns = 0
    /\ last = NoTurn
    /\ rs = Idle
    /\ rt = Idle
    /\ pl = Idle
    /\ cf = Idle
    /\ tn = Idle
    /\ \E text \in ExtractTexts :
          ex = [ done |-> FALSE, again |-> FALSE, text |-> text,
                 first |-> NoCandidates, second |-> NoCandidates ]

ExtractCall ==
    /\ ~ex.done
    /\ ex' = [ ex EXCEPT !.done = TRUE, !.first = extract_candidates(ex.text) ]
    /\ UNCHANGED <<entities, turns, last, rs, rt, pl, cf, tn, hd, ch, sp>>

ExtractAgain ==
    /\ ex.done
    /\ ~ex.again
    /\ ex' = [ ex EXCEPT !.again = TRUE, !.second = extract_candidates(ex.text) ]
    /\ UNCHANGED <<entities, turns, last, rs, rt, pl, cf, tn, hd, ch, sp>>

NextExtract == ExtractCall \/ ExtractAgain

SpecExtract == InitExtract /\ [][NextExtract]_vars

(***************************************************************************)
(* Properties of extract_candidates (SpecExtract)                          *)
(***************************************************************************)
\* PS followed by at least five digits and nothing else
IsPartShaped(w) ==
    /\ Len(w) >= 7
    /\ w[1] = "P" /\ w[2] = "S"
    /\ \A i \in 3..Len(w) : w[i] \in DigitChars

\* the starts of the word-bounded tokens of s that are part-shaped
PartTokenStarts(s) ==
    { i \in 1..Len(s) :
        /\ IsWordChar(s[i])
        /\ i = 1 \/ ~IsWordChar(s[i - 1])
        /\ \E j \in i..Len(s) :
              /\ \A k \in i..j : IsWordChar(s[k])
              /\ j = Len(s) \/ ~IsWordChar(s[j + 1])
              /\ IsPartShaped(SubSeq(s, i, j)) }

\* C20: extract_candidates is total and deterministic: it returns for every
\* text, and a repeated call on the same text returns the same result;
\* a non-null part_id is PS followed by at least 5 digits and is the first
\* such word-bounded token of the uppercased text; a non-null model_id has 6
\* to 15 alphanumeric characters, does not start with PS and holds a digit.
C20_ExtractCandidates ==
    /\ ex.done =>
          /\ DOMAIN ex.first = { "part_id", "model_id" }
          /\ ex.first.part_id # None =>
                LET s == upper(ex.text)
                    starts == PartTokenStarts(s)
                IN  /\ IsPartShaped(ex.first.part_id)
                    /\ starts # {}
                    /\ \E i \in starts :
                          /\ \A j \in starts : i <= j
                          /\ SubSeq(s, i, i + Len(ex.first.part_id) - 1) = ex.first.part_id
          /\ ex.first.model_id # None =>
                /\ Len(ex.first.model_id) \in 6..15
                /\ \A i \in 1..Len(ex.first.model_id) :
                      ex.first.model_id[i] \in UpperChars \cup DigitChars
                /\ ~(ex.first.model_id[1] = "P" /\ ex.first.model_id[2] = "S")
                /\ \E i \in 1..Len(ex.first.model_id) : ex.first.model_id[i] \in DigitChars
    /\ (ex.done /\ ex.again) => ex.second = ex.first

\* two part ids in lower case: the first one is returned, in upper case,
\* with no model, and again on the second call
C20_Witness ==
    /\ ex.done
    /\ ex.again
    /\ ex.text = part_known_lower \o <<",", " ">> \o PS_SECOND
    /\ ex.first.part_id = PS_KNOWN
    /\ ex.first.model_id = None
    /\ ex.second = ex.first


\* C21: every plan returned by plan(), on the classifier path, on a cache
\* hit or as the fallback, has an intent that is one of part_lookup,
\* install_help, compatibility_check, symptom_troubleshoot, general_question.
C21_AsStated ==
    (pl.last.called /\ ~pl.last.raised) => pl.last.plan.intent \in Intents


(***************************************************************************)
(* Handlers with their payload (handlers.py): the search results, the      *)
(* generator's outcome and the fields of the response beyond its type and  *)
(* confidence.  A search result is a part id with a similarity score, a    *)
(* candidate without a part id carries None.                               *)
(***************************************************************************)
Hit(part_id, score) == [part_id |-> part_id, score |-> score]

\* what a call of vector_search ends with: an exception or a list of hits
SearchRaised == [raised |-> TRUE, hits |-> <<>>]

SearchReturned(hits) == [raised |-> FALSE, hits |-> hits]

\* what the text of a diagnosis ends with: an exception or the two texts
TextRaised == [raised |-> TRUE, explanation |-> "none", diagnostic_steps |-> "none"]

Text(explanation, diagnostic_steps) ==
    [raised |-> FALSE, explanation |-> explanation, diagnostic_steps |-> diagnostic_steps]

\* the response of a handler with the payload fields the handlers fill
Answer(response, compatible, part, alternative_parts, recommended_parts, explanation,
       diagnostic_steps) ==
    [ response |-> response, compatible |-> compatible, part |-> part,
      alternative_parts |-> alternative_parts, recommended_parts |-> recommended_parts,
      explanation |-> explanation, diagnostic_steps |-> diagnostic_steps ]

\* an exception leaves the handler
AnswerRaised == Answer(Raised, "null", None, <<>>, <<>>, "none", "none")

\* the loop of handle_compatibility_unvalidated that keeps the queried part
compatibility_alternatives_unfiltered(part_id, candidates) ==
    LET kept == SelectSeq(candidates, LAMBDA c : Truthy(c.part_id))
    IN  SubSeq(kept, 1, Min(3, Len(kept)))

\* the loop of handle_compatibility_unvalidated over the candidates: skip a
\* candidate without a part id and the queried part, stop at three
compatibility_alternatives(part_id, candidates) ==
    LET kept == SelectSeq(candidates, LAMBDA c : Truthy(c.part_id) /\ c.part_id # part_id)
    IN  SubSeq(kept, 1, Min(3, Len(kept)))

\* AgentHandlers.handle_compatibility_unvalidated with its payload; the
\* except clause around vector_search leaves an empty candidate list
compatibility_unvalidated_answer(part_id, model_id, confidence, search) ==
    LET candidates == IF search.raised THEN <<>> ELSE search.hits
        alternatives == compatibility_alternatives(part_id, candidates)
    IN  Answer(handle_compatibility_unvalidated(part_id, model_id, confidence),
               "null",
               IF part_id \in DOMAIN part_id_map THEN part_id ELSE None,
               [i \in DOMAIN alternatives |-> alternatives[i].part_id],
               <<>>, "could_not_verify_model", "none")

\* AgentHandlers._get_popular_parts over the parts all_parts of the map: no
\* part record of the model names a product type, so the first parts of the
\* map come back with score 0.4; appliance.lower() raises on None as soon as
\* the map holds a part, and an empty map gives an empty list
popular_parts_of(all_parts, appliance) ==
    IF all_parts = <<>> THEN SearchReturned(<<>>)
    ELSE IF appliance = None THEN SearchRaised
    ELSE SearchReturned([i \in DOMAIN all_parts |-> Hit(all_parts[i], 400)])

\* _get_popular_parts with the part map of the model
popular_parts(appliance) == popular_parts_of(<<PS_KNOWN, PS_SECOND>>, appliance)

\* AgentHandlers._filter_by_model
filter_by_model(parts, model_id) ==
    IF model_id \notin DOMAIN model_id_to_parts_map THEN <<>>
    ELSE SelectSeq(parts, LAMBDA p : p.part_id \in Range(model_id_to_parts_map[model_id]))

RECURSIVE sort_by_score(_, _)
\* list.sort(key=relevance_score, reverse=True): descending and stable
sort_by_score(parts, levels) ==
    IF levels = {} THEN <<>>
    ELSE LET top == CHOOSE l \in levels : \A m \in levels : l >= m
         IN  SelectSeq(parts, LAMBDA p : p.score = top) \o sort_by_score(parts, levels \ {top})

\* AgentHandlers._rerank_results: the hits carry no symptoms, rating or
\* price, so the relevance score is the similarity score
rerank_results(parts) == sort_by_score(parts, { parts[i].score : i \in DOMAIN parts })

\* the boost of _compute_symptom_confidence
symptom_confidence_boost(ranked_parts) ==
    IF ranked_parts = <<>> THEN 0
    ELSE LET top_score == ranked_parts[1].score
             score_gap == IF Len(ranked_parts) >= 2 THEN top_score - ranked_parts[2].score
                          ELSE 200
         IN  (IF top_score > 800 THEN 150 ELSE IF top_score > 600 THEN 50 ELSE 0)
                 + (IF score_gap > 200 THEN 100 ELSE 0)

\* the generator's outcomes: a JSON object, the default of the bare except in
\* _generate_diagnostic_response when the model call or the parse fails, an
\* exception raised by _generate_diagnostic_response itself, a JSON value
\* that is not an object
GeneratorOutcomes == { "ok", "call_failed", "raise", "not_an_object" }

\* a handler that lets the generator's exception pass
diagnostic_text_uncaught(generator) ==
    IF generator \in { "raise", "not_an_object" } THEN TextRaised
    ELSE IF generator = "ok" THEN Text("generated", "generated")
    ELSE Text("most_likely_parts_for_symptom", "default_steps")

\* the try block around _generate_diagnostic_response in
\* handle_symptom_troubleshoot and the reads of llm_response after it
diagnostic_text(generator) ==
    IF generator = "not_an_object" THEN TextRaised
    ELSE IF generator = "ok" THEN Text("generated", "generated")
    ELSE IF generator = "call_failed"
    THEN Text("most_likely_parts_for_symptom", "default_steps")
    ELSE \* _fallback_diagnostic_response
         Text("Based on your symptom, here are recommended parts:",
              "Verify issue, Check for damage, Test component")

\* AgentHandlers.handle_symptom_troubleshoot with its payload
symptom_troubleshoot_answer(symptom, model_id, session_entities, confidence, search, generator) ==
    LET raw_results == IF search.raised
                       THEN popular_parts(Get(session_entities, "appliance"))
                       ELSE search
    IN  IF raw_results.raised THEN AnswerRaised
        ELSE LET ranked_parts == rerank_results(filter_by_model(raw_results.hits, model_id))
                 llm_response == diagnostic_text(generator)
                 symptom_confidence ==
                     compute_symptom_confidence(ranked_parts # <<>>,
                                                symptom_confidence_boost(ranked_parts),
                                                confidence)
             IN  IF llm_response.raised THEN AnswerRaised
                 ELSE Answer(AgentResponse("symptom_solution", symptom_confidence,
                                           symptom_confidence < 700, "none"),
                             "null", None, <<>>,
                             SubSeq(ranked_parts, 1, Min(3, Len(ranked_parts))),
                             llm_response.explanation, llm_response.diagnostic_steps)

\* the calls handle_symptom_troubleshoot makes for its candidates: the
\* search, and the popular parts in the except clause of the search
symptom_troubleshoot_calls(search) ==
    IF search.raised THEN <<"search", "popular">> ELSE <<"search">>

\* a handler that goes from the search straight to the popular parts
unvalidated_candidates_no_broad(session_entities, search, broad, all_parts) ==
    LET primary == IF search.raised THEN <<>> ELSE search.hits
        third == IF primary # <<>> THEN SearchReturned(primary)
                 ELSE popular_parts_of(all_parts,
                                       GetOr(session_entities, "appliance", refrigerator))
    IN  [ raised |-> third.raised, hits |-> third.hits,
          calls |-> <<"search">> \o (IF primary = <<>> THEN <<"popular">> ELSE <<>>) ]

\* the candidates of handle_symptom_troubleshoot_unvalidated and the calls
\* it makes for them: the search, the broadened search when the first gave
\* nothing, the popular parts when both gave nothing
unvalidated_candidates(session_entities, search, broad, all_parts) ==
    LET primary == IF search.raised THEN <<>> ELSE search.hits
        second == IF primary # <<>> THEN primary
                  ELSE IF broad.raised THEN <<>> ELSE broad.hits
        third == IF second # <<>> THEN SearchReturned(second)
                 ELSE popular_parts_of(all_parts,
                                       GetOr(session_entities, "appliance", refrigerator))
    IN  [ raised |-> third.raised, hits |-> third.hits,
          calls |-> <<"search">> \o (IF primary = <<>> THEN <<"broad">> ELSE <<>>)
                                \o (IF second = <<>> THEN <<"popular">> ELSE <<>>) ]

\* _generate_diagnostic_response as handle_symptom_troubleshoot_unvalidated
\* calls it, outside any try block
diagnostic_text_unvalidated(generator) ==
    IF generator \in { "raise", "not_an_object" } THEN TextRaised
    ELSE IF generator = "ok" THEN Text("note_model_not_in_database_generated", "generated")
    ELSE Text("note_model_not_in_database_most_likely_parts", "default_steps")

\* AgentHandlers.handle_symptom_troubleshoot_unvalidated with its payload
symptom_troubleshoot_unvalidated_answer(symptom, model_id, session_entities, confidence, search, broad, all_parts, generator) ==
    LET raw_results == unvalidated_candidates(session_entities, search, broad, all_parts)
    IN  IF raw_results.raised THEN AnswerRaised
        ELSE IF raw_results.hits = <<>>
        THEN Answer(AgentResponse("clarification_needed", confidence, TRUE, "no_parts_found"),
                    "null", None, <<>>, <<>>, "none", "none")
        ELSE LET ranked_parts == rerank_results(raw_results.hits)
                 llm_response == diagnostic_text_unvalidated(generator)
             IN  IF llm_response.raised THEN AnswerRaised
                 ELSE Answer(AgentResponse("symptom_solution", confidence, FALSE, "none"),
                             "null", None, <<>>,
                             SubSeq(ranked_parts, 1, Min(3, Len(ranked_parts))),
                             llm_response.explanation, llm_response.diagnostic_steps)

(***************************************************************************)
(* A handler called on its own: the initial states draw the handler and    *)
(* its arguments, the action of the handler applies it.                    *)
(***************************************************************************)
\* the longest list of hits a search returns in the model
MaxSearchHits == 4

HandlerConfidences == { 0, 550, 700, 720, 1000 }

\* candidates of the compatibility search: parts of the store, a part
\* outside it, a candidate without a part id
CompatibilityCandidates ==
    { Hit(None, 500), Hit(PS_KNOWN, 500), Hit(PS_SECOND, 500), Hit(PS_UNKNOWN, 500) }

\* hits of the symptom search
SymptomHits == { Hit(PS_KNOWN, 500), Hit(PS_KNOWN, 650), Hit(PS_KNOWN, 900), Hit(PS_SECOND, 950) }

Lists(S, n) == UNION { [1..k -> S] : k \in 0..n }

HandlerSessions == { EmptyDict, "appliance" :> dishwasher }

\* outcomes of a search of the unvalidated handler: an exception, no hit,
\* one hit, two hits
FewHits ==
    { SearchRaised, SearchReturned(<<>>), SearchReturned(<<Hit(PS_SECOND, 650)>>),
      SearchReturned(<<Hit(PS_KNOWN, 500), Hit(PS_UNKNOWN, 900)>>) }

NoAnswer == Answer(AgentResponse("none", 0, FALSE, "none"), "null", None, <<>>, <<>>, "none", "none")

InitHandler ==
    /\ entities = EmptyDict
    /\ turns = 0
    /\ last = NoTurn
    /\ rs = Idle
    /\ rt = Idle
    /\ pl = Idle
    /\ cf = Idle
    /\ ex = Idle
    /\ tn = Idle
    /\ ch = Idle
    /\ sp = Idle
    /\ \/ \E part_id \in { PS_KNOWN, PS_UNKNOWN }, confidence \in HandlerConfidences,
             search \in { SearchRaised }
                     \cup { SearchReturned(h) : h \in Lists(CompatibilityCandidates, MaxSearchHits) } :
             hd = [ done |-> FALSE, handler |-> "handle_compatibility_unvalidated",
                    part_id |-> part_id, model_id |-> MODEL_UNKNOWN, symptom |-> None,
                    session_entities |-> EmptyDict, confidence |-> confidence,
                    search |-> search, broad |-> SearchRaised, all_parts |-> <<>>,
                    generator |-> "ok", calls |-> <<>>, answer |-> NoAnswer ]
       \/ \E session_entities \in HandlerSessions, confidence \in { 550, 720 },
             generator \in GeneratorOutcomes,
             search \in { SearchRaised }
                     \cup { SearchReturned(h) : h \in Lists(SymptomHits, MaxSearchHits) } :
             hd = [ done |-> FALSE, handler |-> "handle_symptom_troubleshoot",
                    part_id |-> None, model_id |-> MODEL_KNOWN, symptom |-> SYM_LEAK,
                    session_entities |-> session_entities, confidence |-> confidence,
                    search |-> search, broad |-> SearchRaised,
                    all_parts |-> <<PS_KNOWN, PS_SECOND>>,
                    generator |-> generator, calls |-> <<>>, answer |-> NoAnswer ]
       \/ \E session_entities \in HandlerSessions, confidence \in { 550, 720 },
             generator \in GeneratorOutcomes,
             search \in FewHits, broad \in FewHits,
             all_parts \in { <<>>, <<PS_KNOWN, PS_SECOND>> } :
             hd = [ done |-> FALSE, handler |-> "handle_symptom_troubleshoot_unvalidated",
                    part_id |-> None, model_id |-> MODEL_UNKNOWN, symptom |-> SYM_LEAK,
                    session_entities |-> session_entities, confidence |-> confidence,
                    search |-> search, broad |-> broad, all_parts |-> all_parts,
                    generator |-> generator, calls |-> <<>>, answer |-> NoAnswer ]

CompatibilityUnvalidatedCall ==
    /\ ~hd.done
    /\ hd.handler = "handle_compatibility_unvalidated"
    /\ hd' = [ hd EXCEPT !.done = TRUE,
                  !.answer = compatibility_unvalidated_answer(hd.part_id, hd.model_id,
                                                              hd.confidence, hd.search) ]
    /\ UNCHANGED <<entities, turns, last, rs, rt, pl, cf, ex, tn, ch, sp>>

SymptomTroubleshootCall ==
    /\ ~hd.done
    /\ hd.handler = "handle_symptom_troubleshoot"
    /\ hd' = [ hd EXCEPT !.done = TRUE,
                  !.calls = symptom_troubleshoot_calls(hd.search),
                  !.answer = symptom_troubleshoot_answer(hd.symptom, hd.model_id,
                                                         hd.session_entities, hd.confidence,
                                                         hd.search, hd.generator) ]
    /\ UNCHANGED <<entities, turns, last, rs, rt, pl, cf, ex, tn, ch, sp>>

SymptomTroubleshootUnvalidatedCall ==
    /\ ~hd.done
    /\ hd.handler = "handle_symptom_troubleshoot_unvalidated"
    /\ hd' = [ hd EXCEPT !.done = TRUE,
                  !.calls = unvalidated_candidates(hd.session_entities, hd.search, hd.broad,
                                                   hd.all_parts).calls,
                  !.answer = symptom_troubleshoot_unvalidated_answer(
                                 hd.symptom, hd.model_id, hd.session_entities, hd.confidence,
                                 hd.search, hd.broad, hd.all_parts, hd.generator) ]
    /\ UNCHANGED <<entities, turns, last, rs, rt, pl, cf, ex, tn, ch, sp>>

NextHandler ==
    \/ CompatibilityUnvalidatedCall
    \/ SymptomTroubleshootCall
    \/ SymptomTroubleshootUnvalidatedCall

SpecHandler == InitHandler /\ [][NextHandler]_vars

(***************************************************************************)
(* Properties of the handlers (SpecHandler)                                *)
(***************************************************************************)
\* C22: handle_compatibility_unvalidated always returns type compatibility
\* with compatible null, requires_clarification true and confidence
\* min(input confidence, 0.7); its alternative_parts hold at most 3 entries,
\* never include the queried part_id, and are empty, not an error, when the
\* search call raises.
C22_UnvalidatedCompatibility ==
    (hd.done /\ hd.handler = "handle_compatibility_unvalidated") =>
        /\ hd.answer.response.type = "compatibility"
        /\ hd.answer.compatible = "null"
        /\ hd.answer.response.requires_clarification
        /\ hd.answer.response.confidence =
              (IF hd.confidence <= 700 THEN hd.confidence ELSE 700)
        /\ Len(hd.answer.alternative_parts) <= 3
        /\ \A i \in DOMAIN hd.answer.alternative_parts :
              hd.answer.alternative_parts[i] # hd.part_id
        /\ hd.search.raised => hd.answer.alternative_parts = <<>>

\* four candidates, the second one the queried part: the three others come
\* back, the queried part does not
C22_Witness ==
    /\ hd.done
    /\ hd.handler = "handle_compatibility_unvalidated"
    /\ hd.part_id = PS_KNOWN
    /\ hd.confidence = 720
    /\ hd.search = SearchReturned(<<Hit(PS_SECOND, 500), Hit(PS_KNOWN, 500),
                                    Hit(PS_UNKNOWN, 500), Hit(PS_SECOND, 500)>>)
    /\ hd.answer.alternative_parts = <<PS_SECOND, PS_UNKNOWN, PS_SECOND>>
    /\ hd.answer.response.confidence = 700

\* the generator is reached: the search returned, or it raised and the
\* session names the appliance the popular parts are taken for
GeneratorInvoked ==
    ~(hd.search.raised /\ Get(hd.session_entities, "appliance") = None)

\* recommended_parts are hits that fit the model, at most three and all of
\* them when there are fewer, best first, and no fitting hit left out has a
\* better score than one that is recommended
RankedTopThree ==
    LET fits(p) == p.part_id \in Range(model_id_to_parts_map[hd.model_id])
        rec == hd.answer.recommended_parts
        fitting == { k \in DOMAIN hd.search.hits : fits(hd.search.hits[k]) }
    IN  /\ Len(rec) = Min(3, Cardinality(fitting))
        /\ \A i \in DOMAIN rec :
              /\ fits(rec[i])
              /\ \A j \in DOMAIN rec : i < j => rec[i].score >= rec[j].score
              /\ \A k \in fitting :
                    (\A j \in DOMAIN rec : rec[j] # hd.search.hits[k])
                        => hd.search.hits[k].score <= rec[i].score

\* C23: in handle_symptom_troubleshoot, when the text generator raises, the
\* handler still returns type symptom_solution with the ranked recommended
\* parts and the fixed fallback explanation and diagnostic steps; the
\* generator's failure is not propagated.
C23_GeneratorFailureContained ==
    (/\ hd.done
     /\ hd.handler = "handle_symptom_troubleshoot"
     /\ hd.generator = "raise"
     /\ GeneratorInvoked) =>
        /\ hd.answer.response # Raised
        /\ hd.answer.response.type = "symptom_solution"
        /\ hd.answer.explanation = "Based on your symptom, here are recommended parts:"
        /\ hd.answer.diagnostic_steps = "Verify issue, Check for damage, Test component"
        /\ hd.search.raised => hd.answer.recommended_parts = <<Hit(PS_KNOWN, 400)>>
        /\ ~hd.search.raised => RankedTopThree

\* the generator raises after a search with three fitting hits and one that
\* does not fit the model: the three are recommended best first, with the
\* fallback texts
C23_Witness ==
    /\ hd.done
    /\ hd.handler = "handle_symptom_troubleshoot"
    /\ hd.generator = "raise"
    /\ hd.search = SearchReturned(<<Hit(PS_KNOWN, 500), Hit(PS_SECOND, 950),
                                    Hit(PS_KNOWN, 900), Hit(PS_KNOWN, 650)>>)
    /\ hd.answer.response.type = "symptom_solution"
    /\ hd.answer.recommended_parts = <<Hit(PS_KNOWN, 900), Hit(PS_KNOWN, 650), Hit(PS_KNOWN, 500)>>
    /\ hd.answer.explanation = "Based on your symptom, here are recommended parts:"


(***************************************************************************)
(* Properties of the scope check (Spec) and of the merge (SpecScore)       *)
(***************************************************************************)
\* C25: check_scope decides by the first applicable tier only: when
\* resolved.appliance is set the query is accepted iff the appliance is one
\* of refrigerator, dishwasher, fridge, whatever its case, even if the query
\* holds an out-of-scope keyword or a part or model id is resolved;
\* otherwise a resolved part_id or model_id accepts even if the query holds
\* an out-of-scope keyword; otherwise a whole-word out-of-scope keyword
\* rejects; otherwise the query is accepted.
C25_ScopeFirstTierDecides ==
    PastPrefilters =>
        ((last.exit # "out_of_scope") <=>
            IF last.resolved.appliance \notin { None, <<>> }
            THEN lower(last.resolved.appliance) \in { refrigerator, dishwasher, fridge }
            ELSE IF last.resolved.part_id \notin { None, <<>> }
                    \/ last.resolved.model_id \notin { None, <<>> }
            THEN TRUE
            ELSE ~MessageTraits[last.user_query].out_of_scope_keyword)

\* a supported appliance in capitals and the word "oven" in the message:
\* the appliance tier accepts and the keyword is not looked at
C25_Witness ==
    /\ PastPrefilters
    /\ last.resolved.appliance = Refrigerator
    /\ MessageTraits[last.user_query].out_of_scope_keyword
    /\ last.exit = "routed"

\* C26: merge_state is additive: after the merge each of the session's
\* part_id, model_id (with model_id_valid), last_symptom, appliance and brand
\* equals the resolved value when resolved carries a non-empty one and
\* otherwise keeps exactly its value from before the merge; the merge never
\* removes a key from the session.
C26_MergeIsAdditive ==
    cf.done =>
        LET before == SessionBeforeMerge
            after  == cf.session_after
            kept(k) == /\ (k \in DOMAIN after) = (k \in DOMAIN before)
                       /\ k \in DOMAIN before => after[k] = before[k]
            set(k, v) == k \in DOMAIN after /\ after[k] = v
            field(k, v) == IF v \notin { None, <<>> } THEN set(k, v) ELSE kept(k)
        IN  /\ field("part_id", cf.resolved.part_id)
            /\ field("model_id", cf.resolved.model_id)
            /\ IF cf.resolved.model_id \notin { None, <<>> }
               THEN set("model_id_valid", cf.resolved.model_id_valid)
               ELSE kept("model_id_valid")
            /\ field("last_symptom", cf.resolved.symptom)
            /\ field("appliance", cf.resolved.appliance)
            /\ field("brand", cf.resolved.brand)
            /\ DOMAIN before \subseteq DOMAIN after

\* a turn that resolves a part and a symptom on a session holding another
\* part, a brand and the same appliance: the part is replaced, the symptom
\* added, brand and appliance survive
C26_Witness ==
    /\ cf.done
    /\ ~cf.drift
    /\ cf.session_entities = ("part_id" :> PS_SECOND) @@ ("brand" :> BRAND_WHIRLPOOL)
                                 @@ ("appliance" :> dishwasher)
    /\ cf.resolved.part_id = PS_KNOWN
    /\ cf.resolved.symptom = SYM_ICE
    /\ cf.resolved.model_id = None
    /\ cf.resolved.brand = None
    /\ cf.resolved.appliance = None
    /\ cf.session_after = ("part_id" :> PS_KNOWN) @@ ("brand" :> BRAND_WHIRLPOOL)
                              @@ ("appliance" :> dishwasher) @@ ("last_symptom" :> SYM_ICE)


(***************************************************************************)
(* Properties of the session across a turn and of the fast follow-up path  *)
(* (Spec)                                                                  *)
(***************************************************************************)
\* C27: the session is changed only by the drift reset and the merge: on
\* every turn that ends in the low-signal clarification, the non-domain
\* clarification or the out-of-scope clarification, the session entities
\* after handle_query are identical to those before it, even when the turn
\* resolved a part, model, symptom or appliance.
C27_RejectedTurnLeavesSession ==
    (last # NoTurn /\ last.exit \in { "low_signal", "non_domain", "out_of_scope" }) =>
        /\ entities = last.session_before
        /\ last.session_after = last.session_before
        /\ \A i \in 1..Len(last.calls) :
              last.calls[i] \notin { "session_entities.clear", "merge_state" }

\* a second turn rejected for its appliance although it resolved a part of
\* the store: the session of the first turn is untouched
C27_Witness ==
    /\ last # NoTurn
    /\ last.exit = "out_of_scope"
    /\ last.resolved.part_id = PS_KNOWN
    /\ last.resolved.part_id_valid
    /\ last.resolved.appliance = oven
    /\ last.session_before # EmptyDict
    /\ "part_id" \notin DOMAIN last.session_before
    /\ entities = last.session_before

\* C28: fast follow-up: on a turn that passes the pre-filters where the
\* session carries last_symptom and the message holds a follow-up phrase,
\* handle_query never invokes planner.plan; the plan used has intent
\* symptom_troubleshoot, confidence 0.9, no part_id, and model_id, symptom,
\* appliance and brand copied from the session, so the turn is never
\* detected as topic drift.
C28_FastFollowUp ==
    (/\ PastPrefilters
     /\ "last_symptom" \in DOMAIN last.session_before
     /\ last.session_before["last_symptom"] \notin { None, <<>> }
     /\ MessageTraits[last.user_query].followup_phrase) =>
        LET from_session(k) == IF k \in DOMAIN last.session_before
                               THEN last.session_before[k] ELSE None
        IN  /\ \A i \in 1..Len(last.calls) : last.calls[i] # "planner.plan"
            /\ last.plan.intent = "symptom_troubleshoot"
            /\ last.plan.confidence = 900
            /\ last.plan.part_id = None
            /\ last.plan.model_id = from_session("model_id")
            /\ last.plan.symptom = from_session("last_symptom")
            /\ last.plan.appliance = from_session("appliance")
            /\ last.plan.brand = from_session("brand")
            /\ ~last.drift
            /\ \A i \in 1..Len(last.calls) : last.calls[i] # "session_entities.clear"

\* "walk me through" on a session with a symptom, a model and an appliance:
\* the synthesized plan carries them and the symptom handler answers
C28_Witness ==
    /\ PastPrefilters
    /\ last.user_query = M_walk
    /\ "last_symptom" \in DOMAIN last.session_before
    /\ "model_id" \in DOMAIN last.session_before
    /\ "appliance" \in DOMAIN last.session_before
    /\ last.plan.model_id = last.session_before["model_id"]
    /\ last.plan.appliance = last.session_before["appliance"]
    /\ last.exit = "routed"
    /\ last.response.type = "symptom_solution"


(***************************************************************************)
(* The /chat endpoint (main.py) with several requests in flight.  A        *)
(* request is a coroutine of the event loop: it runs from one await        *)
(* expression to the next without another coroutine running in between.    *)
(* handle_query is taken step by step: the wait for the classifier, the    *)
(* drift reset, the merge, the routing and the wait for the search.        *)
(* ch.running is the request that holds the loop, 0 for none; ch.settled   *)
(* remembers, per conversation, the entities the last finished turn left.  *)
(***************************************************************************)
\* requests explored
MaxRequests == 3

\* the places of chat() and of what it calls where the coroutine awaits:
\* chat is "async def" and holds no await expression, and handle_query is
\* an ordinary function
await_points_mid_turn == { "scored" }

await_points == {}

\* what a turn resolves: a refrigerator with a model, a dishwasher with a
\* symptom (a change of topic after the first), nothing
ChatResolved ==
    { [NoResolved EXCEPT !.intent = "compatibility_check", !.appliance = refrigerator,
                         !.model_id = MODEL_KNOWN, !.model_id_valid = TRUE],
      [NoResolved EXCEPT !.intent = "symptom_troubleshoot", !.appliance = dishwasher,
                         !.symptom = SYM_LEAK] }

\* the positions of a request that is inside handle_query
MidTurn == { "planning", "resolved", "scored", "merged", "searching", "answered" }

NoRequest ==
    [ pc |-> "idle", conversation_id |-> 0, cid |-> 0, resolved |-> NoResolved,
      hits |-> 0, status |-> 0, raised |-> "none", detail |-> "none" ]

\* get_or_create_session: the session of a known id, else a new session
\* under a new id
get_or_create_session(sessions, conversation_id) ==
    IF conversation_id # 0 /\ conversation_id \in DOMAIN sessions
    THEN [conversation_id |-> conversation_id, sessions |-> sessions]
    ELSE LET new_id == Cardinality(DOMAIN sessions) + 1
         IN  [ conversation_id |-> new_id,
               sessions |-> [ id \in DOMAIN sessions \cup { new_id } |->
                                IF id = new_id
                                THEN [entities |-> EmptyDict, messages |-> <<>>]
                                ELSE sessions[id] ] ]

\* update_session: the user message and the assistant message of the turn,
\* the last 20 messages kept
update_session(sessions, conversation_id, turn) ==
    IF conversation_id \notin DOMAIN sessions THEN sessions
    ELSE LET messages == sessions[conversation_id].messages
                             \o << [role |-> "user", turn |-> turn],
                                   [role |-> "assistant", turn |-> turn] >>
             kept == IF Len(messages) <= 20 THEN messages
                     ELSE SubSeq(messages, Len(messages) - 19, Len(messages))
         IN  [sessions EXCEPT ![conversation_id].messages = kept]

\* a handler whose detail hides the exception
chat_error_detail_generic(message) == "Internal Server Error"

\* raise HTTPException(status_code=500, detail=str(e))
chat_error_detail(message) == message

\* the request may run: it holds the loop, or the loop is free, or the
\* coroutine that holds the loop is at an await expression
may_run(r) ==
    IF ch.running = r \/ ch.running = 0 THEN TRUE
    ELSE ch.req[ch.running].pc \in await_points

InitChat ==
    /\ entities = EmptyDict
    /\ turns = 0
    /\ last = NoTurn
    /\ rs = Idle
    /\ rt = Idle
    /\ pl = Idle
    /\ cf = Idle
    /\ ex = Idle
    /\ tn = Idle
    /\ hd = Idle
    /\ ch = [ sessions |-> EmptyDict, settled |-> EmptyDict,
              req |-> [r \in 1..MaxRequests |-> NoRequest], running |-> 0 ]
    /\ sp = Idle

\* a request arrives, without a conversation id or with the id of a session
Receive ==
    \E r \in 1..MaxRequests :
        /\ ch.req[r].pc = "idle"
        /\ \A q \in 1..(r - 1) : ch.req[q].pc # "idle"
        /\ \E conversation_id \in { 0 } \cup DOMAIN ch.sessions :
              ch' = [ch EXCEPT !.req[r].pc = "pending",
                               !.req[r].conversation_id = conversation_id]
        /\ UNCHANGED <<entities, turns, last, rs, rt, pl, cf, ex, tn, hd, sp>>

\* chat() up to the classifier call of handle_query: the session is looked
\* up or created, the summary built, the planner submitted
Start ==
    \E r \in 1..MaxRequests :
        /\ ch.req[r].pc = "pending"
        /\ may_run(r)
        /\ \E s \in { get_or_create_session(ch.sessions, ch.req[r].conversation_id) } :
              ch' = [ch EXCEPT !.sessions = s.sessions,
                               !.settled = [ id \in DOMAIN s.sessions |->
                                               IF id \in DOMAIN ch.settled
                                               THEN ch.settled[id] ELSE EmptyDict ],
                               !.req[r].cid = s.conversation_id,
                               !.req[r].pc = "planning",
                               !.running = r]
        /\ UNCHANGED <<entities, turns, last, rs, rt, pl, cf, ex, tn, hd, sp>>

\* planner_future.result() returns with a plan of the classifier;
\* validate_and_resolve follows
PlannerReturns ==
    \E r \in 1..MaxRequests :
        /\ ch.req[r].pc = "planning"
        /\ may_run(r)
        /\ \E resolved \in ChatResolved :
              ch' = [ch EXCEPT !.req[r].resolved = resolved, !.req[r].pc = "resolved",
                               !.running = r]
        /\ UNCHANGED <<entities, turns, last, rs, rt, pl, cf, ex, tn, hd, sp>>

\* the classifier call raises: plan() returns the fallback plan, which
\* resolves nothing here
PlannerFallsBack ==
    \E r \in 1..MaxRequests :
        /\ ch.req[r].pc = "planning"
        /\ may_run(r)
        /\ ch' = [ch EXCEPT !.req[r].resolved = NoResolved, !.req[r].pc = "resolved",
                            !.running = r]
        /\ UNCHANGED <<entities, turns, last, rs, rt, pl, cf, ex, tn, hd, sp>>

\* check_topic_drift and session_entities.clear(), then compute_confidence
DriftReset ==
    \E r \in 1..MaxRequests :
        /\ ch.req[r].pc = "resolved"
        /\ may_run(r)
        /\ ch' = [ch EXCEPT
                    !.sessions[ch.req[r].cid].entities =
                        IF check_topic_drift(@, ch.req[r].resolved) THEN EmptyDict ELSE @,
                    !.req[r].pc = "scored",
                    !.running = r]
        /\ UNCHANGED <<entities, turns, last, rs, rt, pl, cf, ex, tn, hd, sp>>

\* merge_state
Merge ==
    \E r \in 1..MaxRequests :
        /\ ch.req[r].pc = "scored"
        /\ may_run(r)
        /\ ch' = [ch EXCEPT
                    !.sessions[ch.req[r].cid].entities = merge_state(@, ch.req[r].resolved),
                    !.req[r].pc = "merged",
                    !.running = r]
        /\ UNCHANGED <<entities, turns, last, rs, rt, pl, cf, ex, tn, hd, sp>>

\* route: a turn with a symptom calls the search, the others answer
Route ==
    \E r \in 1..MaxRequests :
        /\ ch.req[r].pc = "merged"
        /\ may_run(r)
        /\ ch' = [ch EXCEPT !.req[r].pc = IF Truthy(ch.req[r].resolved.symptom)
                                          THEN "searching" ELSE "answered",
                            !.running = r]
        /\ UNCHANGED <<entities, turns, last, rs, rt, pl, cf, ex, tn, hd, sp>>

\* vector_search returns, with hits or, after a failure it logged, with none
SearchReturns ==
    \E r \in 1..MaxRequests :
        /\ ch.req[r].pc = "searching"
        /\ may_run(r)
        /\ \E hits \in { 0, 1 } :
              ch' = [ch EXCEPT !.req[r].pc = "answered", !.req[r].hits = hits,
                               !.running = r]
        /\ UNCHANGED <<entities, turns, last, rs, rt, pl, cf, ex, tn, hd, sp>>

\* handle_query raises, before or after it wrote to the session: the except clause of chat() answers 500 with the
\* text of the exception, update_session is not reached
AgentRaises ==
    \E r \in 1..MaxRequests :
        /\ ch.req[r].pc \in { "resolved", "merged" }
        /\ may_run(r)
        /\ \E message \in { "agent exploded", "disk full" } :
              ch' = [ch EXCEPT !.req[r].pc = "done",
                               !.req[r].status = 500,
                               !.req[r].detail = chat_error_detail(message),
                               !.req[r].raised = message,
                               !.req[r].resolved = NoResolved,
                               !.req[r].hits = 0,
                               !.settled[ch.req[r].cid] = ch.sessions[ch.req[r].cid].entities,
                               !.running = 0]
        /\ UNCHANGED <<entities, turns, last, rs, rt, pl, cf, ex, tn, hd, sp>>

\* handle_query returned: update_session and the ChatResponse
Return ==
    \E r \in 1..MaxRequests :
        /\ ch.req[r].pc = "answered"
        /\ may_run(r)
        /\ ch' = [ch EXCEPT !.sessions = update_session(@, ch.req[r].cid, r),
                            !.req[r].pc = "done",
                            !.req[r].status = 200,
                            !.req[r].resolved = NoResolved,
                            !.req[r].hits = 0,
                            !.settled[ch.req[r].cid] = ch.sessions[ch.req[r].cid].entities,
                            !.running = 0]
        /\ UNCHANGED <<entities, turns, last, rs, rt, pl, cf, ex, tn, hd, sp>>

\* the steps the program takes by itself
ProgramStep == Start \/ DriftReset \/ Merge \/ Route \/ Return

NextChat ==
    \/ Receive
    \/ Start
    \/ PlannerReturns
    \/ PlannerFallsBack
    \/ DriftReset
    \/ Merge
    \/ Route
    \/ SearchReturns
    \/ AgentRaises
    \/ Return

SpecChat == InitChat /\ [][NextChat]_vars

\* the program takes its own steps; nothing makes the classifier or the
\* search reply: invoke_model is called on a client built without a timeout
\* and future.result() is called without one
SpecChatFair == SpecChat /\ WF_vars(ProgramStep)

\* the entities the steps of a turn make of the entities it started from
after_reset(r) ==
    IF check_topic_drift(ch.settled[ch.req[r].cid], ch.req[r].resolved)
    THEN EmptyDict ELSE ch.settled[ch.req[r].cid]

\* the requests that failed with a 500 answer
Failed == { r \in 1..MaxRequests : ch.req[r].pc = "done" /\ ch.req[r].status = 500 }

\* the messages of the conversation of request r that a given turn appended
MessagesOf(r, turn) ==
    { i \in 1..Len(ch.sessions[ch.req[r].cid].messages) :
          ch.sessions[ch.req[r].cid].messages[i].turn = turn }

\* C24: when handle_query raises, the request is answered with status 500
\* and a detail that carries the message of the exception, no message of
\* the failed turn is appended to the session, the session is kept and the
\* event loop is released, and a later turn of the same conversation that
\* returns is answered 200 with its two messages appended
C24_AgentFailureIs500 ==
    /\ \A r \in Failed :
          /\ ch.req[r].detail = ch.req[r].raised
          /\ ch.req[r].raised # "none"
          /\ ch.req[r].cid \in DOMAIN ch.sessions
          /\ MessagesOf(r, r) = {}
          /\ ch.running # r
    /\ \A r \in 1..MaxRequests :
          (ch.req[r].pc = "done" /\ ch.req[r].status = 200)
              => \E i \in MessagesOf(r, r) :
                    ch.sessions[ch.req[r].cid].messages[i].role = "assistant"
    /\ \A r \in 1..MaxRequests :
          ch.req[r].status = 500 => ch.req[r].raised # "none"

\* a turn fails and a later turn of the same conversation is answered
C24_Witness ==
    \E r \in Failed : \E q \in (r + 1)..MaxRequests :
        /\ ch.req[q].cid = ch.req[r].cid
        /\ ch.req[q].pc = "done"
        /\ ch.req[q].status = 200

\* C29: every turn that entered handle_query eventually gets its answer,
\* whatever the classifier and the search do
C29_AsStated ==
    \A r \in 1..MaxRequests : (ch.req[r].pc = "planning") ~> (ch.req[r].pc = "done")

\* C30: at most one request is inside handle_query at a time, so that the
\* entities of a conversation are, at every step of a turn, what that
\* turn's own steps made of the entities the last finished turn left
C30_SingleWriter ==
    /\ Cardinality({ r \in 1..MaxRequests : ch.req[r].pc \in MidTurn }) <= 1
    /\ \A r \in 1..MaxRequests :
          /\ ch.req[r].pc \in MidTurn => ch.running = r
          /\ ch.req[r].pc \in { "planning", "resolved" }
                => ch.sessions[ch.req[r].cid].entities = ch.settled[ch.req[r].cid]
          /\ ch.req[r].pc = "scored"
                => ch.sessions[ch.req[r].cid].entities = after_reset(r)
          /\ ch.req[r].pc \in { "merged", "searching", "answered" }
                => ch.sessions[ch.req[r].cid].entities
                       = merge_state(after_reset(r), ch.req[r].resolved)

\* two requests of one conversation are in the server at once, one of
\* them past its merge, and the conversation already holds entities of an
\* earlier turn
C30_Witness ==
    \E r \in 1..MaxRequests : \E q \in 1..MaxRequests :
        /\ ch.req[r].pc = "merged"
        /\ ch.req[q].pc = "pending"
        /\ ch.req[q].conversation_id = ch.req[r].cid
        /\ ch.settled[ch.req[r].cid] # EmptyDict


(***************************************************************************)
(* The planner shared by the requests.  agent = ApplianceAgent(...) is a   *)
(* module-level object of main.py and each /chat request calls plan() on   *)
(* its one planner.  plan() is taken statement by statement: the lookup,   *)
(* the classifier call, the size check and the insertion.  A request runs  *)
(* when it may hold the event loop (await_points).                         *)
(***************************************************************************)
\* requests explored
MaxCallers == 4

\* a size check that always finds room
cache_has_room_unchecked(cache) == TRUE

\* if len(self._cache) < 1000, the limit being MaxCacheEntries here
cache_has_room(cache) == Cardinality(DOMAIN cache) < MaxCacheEntries

\* the planning inputs of the requests: three different keys, one of them
\* typed in two ways
SharedInputs == { M_install_part, TXT_VARIANT, TXT_NEAR, M_capital }

\* the validated plans the classifier may return for one text
SharedPlans == { "plan_a", "plan_b" }

NoCaller ==
    [ pc |-> "idle", key |-> <<>>, plan |-> "none", size_seen |-> 0, outcome |-> "none" ]

\* the request may run plan(): it holds the loop, or the loop is free, or
\* the request that holds the loop is at an await expression
may_plan(t) ==
    IF sp.running = t \/ sp.running = 0 THEN TRUE
    ELSE sp.req[sp.running].pc \in await_points

InitShared ==
    /\ entities = EmptyDict
    /\ turns = 0
    /\ last = NoTurn
    /\ rs = Idle
    /\ rt = Idle
    /\ pl = Idle
    /\ cf = Idle
    /\ ex = Idle
    /\ tn = Idle
    /\ hd = Idle
    /\ ch = Idle
    /\ sp = [ cache |-> EmptyDict, first |-> EmptyDict,
              req |-> [t \in 1..MaxCallers |-> NoCaller], running |-> 0 ]

\* a request arrives with its text
SharedReceive ==
    \E t \in 1..MaxCallers :
        /\ sp.req[t].pc = "idle"
        /\ \A q \in 1..(t - 1) : sp.req[q].pc # "idle"
        /\ \E user_input \in SharedInputs :
              sp' = [sp EXCEPT !.req[t].pc = "pending",
                               !.req[t].key = PlannerFacts[user_input].cache_key]
        /\ UNCHANGED <<entities, turns, last, rs, rt, pl, cf, ex, tn, hd, ch>>

\* plan(): the key is in the cache and the stored plan is returned
SharedHit ==
    \E t \in 1..MaxCallers :
        /\ sp.req[t].pc = "pending"
        /\ may_plan(t)
        /\ sp.req[t].key \in DOMAIN sp.cache
        /\ sp' = [sp EXCEPT !.req[t].pc = "done", !.req[t].outcome = "hit",
                            !.req[t].plan = sp.cache[sp.req[t].key],
                            !.running = 0]
        /\ UNCHANGED <<entities, turns, last, rs, rt, pl, cf, ex, tn, hd, ch>>

\* plan(): the key is not in the cache and the classifier is called
SharedMiss ==
    \E t \in 1..MaxCallers :
        /\ sp.req[t].pc = "pending"
        /\ may_plan(t)
        /\ sp.req[t].key \notin DOMAIN sp.cache
        /\ sp' = [sp EXCEPT !.req[t].pc = "calling", !.running = t]
        /\ UNCHANGED <<entities, turns, last, rs, rt, pl, cf, ex, tn, hd, ch>>

\* the classifier replied and _validate_plan accepted the plan
SharedValidated ==
    \E t \in 1..MaxCallers :
        /\ sp.req[t].pc = "calling"
        /\ may_plan(t)
        /\ \E plan \in SharedPlans :
              sp' = [sp EXCEPT !.req[t].pc = "validated", !.req[t].plan = plan,
                               !.running = t]
        /\ UNCHANGED <<entities, turns, last, rs, rt, pl, cf, ex, tn, hd, ch>>

\* the call, the parse or the validation raised: the fallback plan is
\* returned and nothing is stored
SharedFallback ==
    \E t \in 1..MaxCallers :
        /\ sp.req[t].pc = "calling"
        /\ may_plan(t)
        /\ sp' = [sp EXCEPT !.req[t].pc = "done", !.req[t].outcome = "fallback",
                            !.req[t].plan = "fallback", !.running = 0]
        /\ UNCHANGED <<entities, turns, last, rs, rt, pl, cf, ex, tn, hd, ch>>

\* if len(self._cache) < 1000: the size is read
SharedCheckRoom ==
    \E t \in 1..MaxCallers :
        /\ sp.req[t].pc = "validated"
        /\ may_plan(t)
        /\ sp' = [sp EXCEPT !.req[t].pc = IF cache_has_room(sp.cache) THEN "room" ELSE "done",
                            !.req[t].outcome = IF cache_has_room(sp.cache) THEN "none"
                                               ELSE "not_stored",
                            !.req[t].size_seen = Cardinality(DOMAIN sp.cache),
                            !.running = IF cache_has_room(sp.cache) THEN t ELSE 0]
        /\ UNCHANGED <<entities, turns, last, rs, rt, pl, cf, ex, tn, hd, ch>>

\* self._cache[cache_key] = plan; sp.first keeps the plan a key was first
\* stored with
SharedInsert ==
    \E t \in 1..MaxCallers :
        /\ sp.req[t].pc = "room"
        /\ may_plan(t)
        /\ sp' = [sp EXCEPT !.cache = Put(@, sp.req[t].key, sp.req[t].plan),
                            !.first = IF sp.req[t].key \in DOMAIN @ THEN @
                                      ELSE Put(@, sp.req[t].key, sp.req[t].plan),
                            !.req[t].size_seen = Cardinality(DOMAIN sp.cache),
                            !.req[t].pc = "done", !.req[t].outcome = "stored",
                            !.running = 0]
        /\ UNCHANGED <<entities, turns, last, rs, rt, pl, cf, ex, tn, hd, ch>>

NextShared ==
    \/ SharedReceive
    \/ SharedHit
    \/ SharedMiss
    \/ SharedValidated
    \/ SharedFallback
    \/ SharedCheckRoom
    \/ SharedInsert

SpecShared == InitShared /\ [][NextShared]_vars

TokensOf(s) ==
    { [start |-> span[1], word |-> SubSeq(s, span[1], span[2])] :
        span \in { pair \in (1..Len(s)) \X (1..Len(s)) :
                      /\ pair[1] <= pair[2]
                      /\ \A k \in pair[1]..pair[2] : IsWordChar(s[k])
                      /\ pair[1] = 1 \/ ~IsWordChar(s[pair[1] - 1])
                      /\ pair[2] = Len(s) \/ ~IsWordChar(s[pair[2] + 1]) } }

\* 6 to 15 characters, letters and digits only
IsIdShaped(w) ==
    /\ Len(w) \in 6..15
    /\ \A k \in 1..Len(w) : w[k] \in UpperChars \cup DigitChars

\* an id-shaped token that does not start with PS and holds a digit
IsModelShaped(w) ==
    /\ IsIdShaped(w)
    /\ ~(w[1] = "P" /\ w[2] = "S")
    /\ \E k \in 1..Len(w) : w[k] \in DigitChars

\* the text holds a part-id token and a model-shaped token
HoldsPartAndModel ==
    /\ \E tok \in TokensOf(upper(ex.text)) : IsPartShaped(tok.word)
    /\ \E tok \in TokensOf(upper(ex.text)) : IsModelShaped(tok.word)

\* C32 as stated: for every text that holds a part-id token and a token of
\* 6 to 15 alphanumeric characters that does not start with PS and holds a
\* digit, extract_candidates returns a non-null part_id and a non-null
\* model_id, whatever the order of the tokens and the other words.
C32_AsStated ==
    (ex.done /\ HoldsPartAndModel) =>
        (ex.first.part_id # None /\ ex.first.model_id # None)


(***************************************************************************)
(* Properties of the search fallbacks of the symptom handlers (SpecHandler)*)
(***************************************************************************)
\* a handler for a symptom was called
SymptomHandlerDone ==
    /\ hd.done
    /\ hd.handler \in { "handle_symptom_troubleshoot", "handle_symptom_troubleshoot_unvalidated" }

\* a search call failed or returned no candidate
GaveNothing(search) == search.raised \/ search.hits = <<>>

\* every search call the handler makes gave nothing
SearchesGaveNothing ==
    /\ GaveNothing(hd.search)
    /\ hd.handler = "handle_symptom_troubleshoot_unvalidated" => GaveNothing(hd.broad)

\* C33 as stated: in both symptom-troubleshoot handlers, whenever the search
\* fails or returns no candidates, the handler takes the static
\* popular-parts list before it builds the answer, and does not raise
\* because of the search.
C33_AsStated ==
    (SymptomHandlerDone /\ SearchesGaveNothing /\ hd.generator \in { "ok", "call_failed" }) =>
        /\ hd.answer.response # Raised
        /\ \E i \in DOMAIN hd.calls : hd.calls[i] = "popular"


\* the unvalidated symptom handler was called
UnvalidatedDone == hd.done /\ hd.handler = "handle_symptom_troubleshoot_unvalidated"

\* the popular-parts list of the handler's part map is empty
PopularGaveNothing == hd.all_parts = <<>>

\* C34: in handle_symptom_troubleshoot_unvalidated the fallbacks run in a
\* fixed order, each at most once: the broadened search is issued exactly
\* when the primary search failed or returned nothing, the popular-parts
\* list is taken exactly when the broadened search also failed or returned
\* nothing, the answer is clarification_needed exactly when all three gave
\* nothing, and a failure of a search never leaves the handler.
C34_FallbackOrder ==
    UnvalidatedDone =>
        /\ hd.calls \in { <<"search">>, <<"search", "broad">>, <<"search", "broad", "popular">> }
        /\ Len(hd.calls) >= 2 <=> GaveNothing(hd.search)
        /\ Len(hd.calls) = 3 <=> (GaveNothing(hd.search) /\ GaveNothing(hd.broad))
        /\ hd.answer.response = Raised => hd.generator \in { "raise", "not_an_object" }
        /\ hd.answer.response # Raised =>
              /\ hd.answer.response.type \in { "clarification_needed", "symptom_solution" }
              /\ hd.answer.response.type = "clarification_needed"
                    <=> (GaveNothing(hd.search) /\ GaveNothing(hd.broad) /\ PopularGaveNothing)
        /\ (GaveNothing(hd.search) /\ GaveNothing(hd.broad) /\ PopularGaveNothing)
              => hd.answer.response.type = "clarification_needed"

\* the primary search raises, the broadened search finds nothing, and the
\* answer recommends the popular parts
C34_Witness ==
    /\ UnvalidatedDone
    /\ hd.search = SearchRaised
    /\ hd.broad = SearchReturned(<<>>)
    /\ hd.calls = <<"search", "broad", "popular">>
    /\ hd.answer.response.type = "symptom_solution"
    /\ hd.answer.recommended_parts = <<Hit(PS_KNOWN, 400), Hit(PS_SECOND, 400)>>


(***************************************************************************)
(* Further properties of handle_query (Spec)                               *)
(***************************************************************************)
\* the message of the turn holds no part id
NoPartInMessage == last.candidates.part_id = None

\* C35 as stated, for a part held by the session: on a turn where the
\* classifier fails and the fallback plan is used, the part_id of the
\* session, absent from the user message, gets into resolved.part_id only
\* if the message holds a part back-reference phrase and the intent is not
\* symptom_troubleshoot, and otherwise the turn is not routed to the part
\* lookup with it.
C35_AsStated ==
    (/\ ClassifierFailed
     /\ NoPartInMessage
     /\ last.resolved.part_id # None
     /\ Get(last.session_before, "part_id") = last.resolved.part_id) =>
        /\ TextFacts[last.user_query].part_reference
        /\ last.resolved.intent # "symptom_troubleshoot"


\* the part id the message or the plan of the turn supplies, None if neither
TurnSuppliedPart == Or(last.candidates.part_id, last.plan.part_id)

\* the model id the message or the plan of the turn supplies
TurnSuppliedModel == Or(last.candidates.model_id, last.plan.model_id)

\* C36 as stated: on a turn where topic drift is detected, a part_id or
\* model_id that the session holds after the turn was supplied by the
\* message or the plan of the turn; none is carried over from the session
\* as it was before the reset.
C36_AsStated ==
    (last.exit = "routed" /\ last.drift) =>
        /\ "part_id" \in DOMAIN last.session_after =>
              /\ Truthy(TurnSuppliedPart)
              /\ last.session_after["part_id"] = upper(TurnSuppliedPart)
        /\ "model_id" \in DOMAIN last.session_after =>
              /\ Truthy(TurnSuppliedModel)
              /\ last.session_after["model_id"] = upper(TurnSuppliedModel)


(***************************************************************************)
(* Further properties of one turn with a fault (SpecTurn)                  *)
(***************************************************************************)
\* C37 as stated: whenever handle_query returns the error response of its
\* exception handler, the session entities after the call are the session
\* entities before the call.
C37_AsStated ==
    (tn.done /\ tn.result.failed /\ tn.result.response = error_response) =>
        tn.result.session_after = tn.session_entities


(***************************************************************************)
(* Further properties of route (SpecRoute)                                 *)
(***************************************************************************)
\* what route does with the same record once its model is known
route_with_known_model(resolved, session_entities, confidence, env) ==
    route([resolved EXCEPT !.model_id_valid = TRUE], session_entities, confidence, env)

\* C38 as stated: for every resolved record with a symptom and a model_id
\* and every confidence, if route invokes a symptom-troubleshoot handler
\* when model_id_valid is false, then with the same inputs and
\* model_id_valid true it also invokes a symptom-troubleshoot handler and
\* not the generic clarification.
C38_AsStated ==
    ( /\ rt.done
      /\ Truthy(rt.resolved.symptom)
      /\ Truthy(rt.resolved.model_id)
      /\ ~rt.resolved.model_id_valid
      /\ rt.routed.handler \in search_handlers ) =>
        route_with_known_model(rt.resolved, rt.session_entities,
                               rt.confidence, rt.env).handler \in search_handlers


(***************************************************************************)
(* Further properties of the conversation: validated identifiers (Spec)    *)
(***************************************************************************)
\* the part candidate of the last turn, as validate_and_resolve reads it
TurnPartCandidate ==
    candidate_part(last.plan, last.candidates,
                   last.session_before,
                   last.user_query)

\* the last turn got as far as validate_and_resolve
TurnResolved == last.exit \in { "out_of_scope", "routed" }

\* C39: in every record validate_and_resolve produces, part_id is non-null
\* exactly when part_id_valid is true; a part candidate that is not a key of
\* the part map is dropped, not kept as unvalidated; through handle_query the
\* part-lookup handler and the part-not-found response are reached only with
\* a valid part; and a part_id held by the session after any sequence of
\* turns from an empty session is a key of the part map.
C39_PartKeptOnlyIfValid ==
    /\ TurnResolved =>
          /\ last.resolved.part_id # None <=> last.resolved.part_id_valid
          /\ last.resolved.part_id # None => last.resolved.part_id \in DOMAIN part_id_map
          /\ ( Truthy(TurnPartCandidate)
               /\ upper(TurnPartCandidate) \notin DOMAIN part_id_map ) =>
                 last.resolved.part_id = None
    /\ last.routed.handler = "handle_part_lookup" =>
          /\ last.resolved.part_id_valid
          /\ last.resolved.part_id \in DOMAIN part_id_map
    /\ last.response.message = "part_not_found" => last.resolved.part_id_valid
    /\ "part_id" \in DOMAIN entities => entities["part_id"] \in DOMAIN part_id_map

\* a turn whose part candidate is not in the part map: the record carries no
\* part, and the session still holds the part of an earlier turn
C39_Witness ==
    /\ TurnResolved
    /\ Truthy(TurnPartCandidate)
    /\ upper(TurnPartCandidate) \notin DOMAIN part_id_map
    /\ last.resolved.part_id = None
    /\ ~last.resolved.part_id_valid
    /\ "part_id" \in DOMAIN entities
    /\ entities["part_id"] \in DOMAIN part_id_map


\* the session holds a model identifier
SessionHoldsModel == "model_id" \in DOMAIN entities

\* C40: after any sequence of turns from an empty session, whenever the
\* session holds a model_id it also holds model_id_valid, and model_id_valid
\* is true exactly when that model_id is a key of the model map; neither
\* field is ever in the session without the other.
C40_ModelFlagFollowsModel ==
    /\ SessionHoldsModel <=> "model_id_valid" \in DOMAIN entities
    /\ SessionHoldsModel =>
          /\ Truthy(entities["model_id"])
          /\ entities["model_id_valid"]
                <=> entities["model_id"] \in DOMAIN model_id_to_parts_map

\* a turn that replaces a known model of the session by an unknown one: the
\* flag is rewritten with it
C40_Witness ==
    /\ SessionHoldsModel
    /\ entities["model_id"] = MODEL_UNKNOWN
    /\ ~entities["model_id_valid"]
    /\ ~last.drift
    /\ Get(last.session_before, "model_id") = MODEL_KNOWN
    /\ last.session_before["model_id_valid"]

=============================================================================
